---- MODULE Spec2Model ----
(***************************************************************************)
(* Thumbnail pipeline of fancy-planties:                                   *)
(*   cdk/lambda_functions/thumbnail/generate_thumbnails.py  (Event         *)
(*       Processor, Derivative Set Generator)                              *)
(*   cdk/lambda_functions/thumbnail/backfill_thumbnails.py  (Scanner,      *)
(*       Backfill Scheduler)                                               *)
(*   cdk/stacks/storage_stack.py  (bucket notification wiring)             *)
(*                                                                         *)
(* Object keys are sequences of tokens.  "/", ".", "+", "%" and " " are    *)
(* the single characters; every other token stands for a run of characters *)
(* that holds none of them ("users", "thumb-", "64", "jpg", "2F", ...).    *)
(* A "%" followed by one of the tokens of HexPairs is a percent escape;    *)
(* the sample keys never put another hexadecimal pair after a "%".         *)
(***************************************************************************)
EXTENDS Integers, Sequences, FiniteSets, TLC

(***************************************************************************)
(* Bounds of the model.                                                    *)
(***************************************************************************)
MaxRecords == 2     \* records of one notification batch
MaxUploads == 1     \* uploads of the notification cascade
MaxObjects == 3     \* objects in the bucket when a scan starts
PageSize == 2       \* keys of one list_objects_v2 page
MaxCap == 2         \* largest max_images given
MaxItems == 2       \* items handed to process_images_in_batches
MaxBatch == 2       \* largest batch_size given
MaxCalls == 2       \* calls of generate_thumbnails on one original
MaxCandidates == 22 \* candidates a scan hands to a dry run
MaxSide == 49       \* largest width and height of the small images rendered

(***************************************************************************)
(* State.                                                                  *)
(***************************************************************************)
VARIABLES
    store,      \* the keys of the objects in the bucket
    queue,      \* notification records S3 has not delivered yet
    event,      \* the event of the running lambda_handler invocation
    evPc,       \* "idle", "loop" (in the for loop) or "done" (returned)
    evIdx,      \* records of the event the loop has taken
    results,    \* lambda_handler's results list
    response,   \* lambda_handler's return value
    lastOut,    \* what the last process_s3_record call did
    uploads,    \* originals uploaded
    writes,     \* objects written by put_object
    notified,   \* notifications S3 has queued
    cfg,        \* the backfill's parameters and its process environment
    bfPc,       \* where the backfill run stands
    scan,       \* find_images_needing_thumbnails' locals and its call counts
    items,      \* image_keys of process_images_in_batches
    batch,      \* the generator chosen, the loop index i, the batch's futures
    stats,      \* total, successful, skipped, failed
    ledger,     \* per item: calls made for it, how they ended, where it was counted
    bfResponse, \* what the backfill's lambda_handler returned
    calls,      \* the calls of generate_thumbnails made on one original
    render      \* create_thumbnail's geometry on one image and one descriptor

(***************************************************************************)
(* Strings, as the standard library computes them.                         *)
(***************************************************************************)

\* str.find / str.rfind of a one-character needle, 0 for "not found".
FirstIndexOf(s, t) ==
    IF \E i \in 1..Len(s) : s[i] = t
    THEN CHOOSE i \in 1..Len(s) : s[i] = t /\ \A j \in 1..(i - 1) : s[j] # t
    ELSE 0

LastIndexOf(s, t) ==
    IF \E i \in 1..Len(s) : s[i] = t
    THEN CHOOSE i \in 1..Len(s) : s[i] = t /\ \A j \in (i + 1)..Len(s) : s[j] # t
    ELSE 0

\* sub in s
Contains(s, sub) ==
    \E i \in 0..(Len(s) - Len(sub)) : SubSeq(s, i + 1, i + Len(sub)) = sub

\* s.startswith(p)
StartsWith(s, p) == Len(s) >= Len(p) /\ SubSeq(s, 1, Len(p)) = p

\* The percent escapes the sample keys use, and the character each stands for.
HexPairs == {"2F", "2B", "25", "20"}

Unhex(h) ==
    CASE h = "2F" -> "/"
      [] h = "2B" -> "+"
      [] h = "25" -> "%"
      [] h = "20" -> " "

\* urllib.parse.unquote_plus: "+" is a space, "%xx" is the character xx, a "%" that
\* starts no escape stays.
RECURSIVE unquote_plus(_)
unquote_plus(s) ==
    IF s = <<>> THEN <<>>
    ELSE IF Head(s) = "%" /\ Len(s) >= 2 /\ s[2] \in HexPairs
         THEN <<Unhex(s[2])>> \o unquote_plus(SubSeq(s, 3, Len(s)))
    ELSE IF Head(s) = "+"
         THEN <<" ">> \o unquote_plus(Tail(s))
    ELSE <<Head(s)>> \o unquote_plus(Tail(s))

\* The key as an S3 notification carries it: URL-encoded, a space as "+", "/" kept.
RECURSIVE S3UrlEncode(_)
S3UrlEncode(s) ==
    IF s = <<>> THEN <<>>
    ELSE (CASE Head(s) = " " -> <<"+">>
            [] Head(s) = "+" -> <<"%", "2B">>
            [] Head(s) = "%" -> <<"%", "25">>
            [] OTHER -> <<Head(s)>>) \o S3UrlEncode(Tail(s))

\* str.lower of one token
LowerTok(t) ==
    CASE t = "JPG" -> "jpg"
      [] t = "PNG" -> "png"
      [] OTHER -> t

lower(s) == [i \in 1..Len(s) |-> LowerTok(s[i])]

\* os.path.splitext: the extension starts at the last "." after the last "/",
\* unless only dots stand between that "/" and it.
splitext(p) ==
    LET sepIndex == LastIndexOf(p, "/")
        dotIndex == LastIndexOf(p, ".")
    IN  IF dotIndex > sepIndex
           /\ \E f \in (sepIndex + 1)..(dotIndex - 1) : p[f] # "."
        THEN <<SubSeq(p, 1, dotIndex - 1), SubSeq(p, dotIndex, Len(p))>>
        ELSE <<p, <<>>>>

\* key.split('/')
RECURSIVE split(_)
split(s) ==
    LET i == FirstIndexOf(s, "/")
    IN  IF i = 0 THEN <<s>>
        ELSE <<SubSeq(s, 1, i - 1)>> \o split(SubSeq(s, i + 1, Len(s)))

\* key.rsplit('/', 1)
rsplit1(s) ==
    LET i == LastIndexOf(s, "/")
    IN  IF i = 0 THEN <<s>>
        ELSE <<SubSeq(s, 1, i - 1), SubSeq(s, i + 1, Len(s))>>

(***************************************************************************)
(* Configuration of generate_thumbnails.py.                                *)
(***************************************************************************)
THUMBNAIL_CONFIGS ==
    << [width |-> 64,  height |-> 64,  subdir |-> <<"thumb-", "64">>],
       [width |-> 200, height |-> 150, subdir |-> <<"thumb-", "200">>],
       [width |-> 300, height |-> 300, subdir |-> <<"thumb-", "300">>],
       [width |-> 400, height |-> 300, subdir |-> <<"thumb-", "400">>] >>

Subdirs == {THUMBNAIL_CONFIGS[i].subdir : i \in 1..Len(THUMBNAIL_CONFIGS)}

MAX_IMAGE_SIZE_MB == 20

BytesPerMB == 1024 * 1024

SUPPORTED_FORMATS ==
    {<<".", "jpg">>, <<".", "jpeg">>, <<".", "png">>, <<".", "webp">>}

\* The literal '/thumb-' of process_s3_record.
RecursionMarker == <<"/", "thumb-">>

\* The literal 'users' of process_s3_record, and the 'users/' prefix of the
\* bucket's notification filter.
RootSegment == <<"users">>

NotificationPrefix == <<"users", "/">>

BUCKET_NAME == "images"

(***************************************************************************)
(* What the environment answers to one record's storage calls: the get     *)
(* (an error, or content of some size that decodes or not) and, for each   *)
(* descriptor, whether its render and its put go through.                  *)
(***************************************************************************)
Sizes == {1, MAX_IMAGE_SIZE_MB * BytesPerMB, MAX_IMAGE_SIZE_MB * BytesPerMB + 1}

FetchOutcomes == [error : BOOLEAN, size : Sizes, decodable : BOOLEAN]

DescOutcomes == {"ok", "render_error", "put_error"}

\* The handlers are run against the environments in which at most one descriptor
\* of a call fails (in its render or in its put).
DescEnvs ==
    {d \in [Subdirs -> DescOutcomes] :
        \A v, w \in Subdirs : (d[v] # "ok" /\ d[w] # "ok") => v = w}

AllOk == [d \in Subdirs |-> "ok"]

FetchEnvs == {g \in FetchOutcomes : g.error => (g.size = 1 /\ g.decodable)}

Env(f, d) == [fetch |-> f, desc |-> d]

(***************************************************************************)
(* generate_thumbnails.py                                                  *)
(***************************************************************************)

\* The result dictionaries; a key a dictionary lacks reads as FALSE, "" or <<>>,
\* which is what result.get(...) makes of it.
SkippedResult(reason) ==
    [success |-> TRUE, skipped |-> TRUE, reason |-> reason,
     original_key |-> <<>>, thumbnails |-> <<>>, error |-> ""]

GeneratedResult(key, thumbnail_keys) ==
    [success |-> TRUE, skipped |-> FALSE, reason |-> "",
     original_key |-> key, thumbnails |-> thumbnail_keys, error |-> ""]

FailedResult(error) ==
    [success |-> FALSE, skipped |-> FALSE, reason |-> "",
     original_key |-> <<>>, thumbnails |-> <<>>, error |-> error]

\* A flat naming scheme: f"{base_path}/{filename_without_ext}-{subdir_name}.webp"
thumbnail_key_Flat(base_path, subdir_name, filename_without_ext) ==
    base_path \o <<"/">> \o filename_without_ext \o <<"-">> \o subdir_name
        \o <<".", "webp">>

\* A naming scheme that never overwrites: the key takes a suffix when the bucket
\* holds an object under it.
thumbnail_key_Unique(base_path, subdir_name, filename_without_ext) ==
    LET plain == base_path \o <<"/">> \o subdir_name \o <<"/">>
                    \o filename_without_ext
    IN  IF plain \o <<".", "webp">> \in store
        THEN plain \o <<"-", "1", ".", "webp">>
        ELSE plain \o <<".", "webp">>

\* create_thumbnail's key: f"{base_path}/{subdir_name}/{filename_without_ext}.webp"
thumbnail_key(base_path, subdir_name, filename_without_ext) ==
    base_path \o <<"/">> \o subdir_name \o <<"/">> \o filename_without_ext
        \o <<".", "webp">>

\* create_thumbnail: renders, then puts; it raises when either fails.  put: whether
\* put_object was called; written: whether the object was stored.
create_thumbnail(base_path, filename_without_ext, subdir_name, outcome) ==
    [raised  |-> outcome # "ok",
     key     |-> thumbnail_key(base_path, subdir_name, filename_without_ext),
     put     |-> outcome # "render_error",
     written |-> outcome = "ok"]

\* A loop that ends at the first descriptor that fails.
RECURSIVE GenerateFrom_StopAtFailure(_, _, _, _)
GenerateFrom_StopAtFailure(i, base_path, filename_without_ext, desc) ==
    IF i > Len(THUMBNAIL_CONFIGS)
    THEN [thumbnail_keys |-> <<>>, puts |-> <<>>, attempted |-> <<>>]
    ELSE LET subdir == THUMBNAIL_CONFIGS[i].subdir
             t == create_thumbnail(base_path, filename_without_ext, subdir,
                                   desc[subdir])
             rest == IF t.raised
                     THEN [thumbnail_keys |-> <<>>, puts |-> <<>>,
                           attempted |-> <<>>]
                     ELSE GenerateFrom_StopAtFailure(i + 1, base_path,
                                                     filename_without_ext, desc)
         IN  [thumbnail_keys |->
                 (IF t.raised THEN <<>> ELSE <<t.key>>) \o rest.thumbnail_keys,
              puts |-> (IF t.put THEN <<t.key>> ELSE <<>>) \o rest.puts,
              attempted |-> <<subdir>> \o rest.attempted]

\* The loop of generate_thumbnails over THUMBNAIL_CONFIGS[i..], in order.
RECURSIVE GenerateFrom(_, _, _, _)
GenerateFrom(i, base_path, filename_without_ext, desc) ==
    IF i > Len(THUMBNAIL_CONFIGS)
    THEN [thumbnail_keys |-> <<>>, puts |-> <<>>, attempted |-> <<>>]
    ELSE LET subdir == THUMBNAIL_CONFIGS[i].subdir
             t == create_thumbnail(base_path, filename_without_ext, subdir,
                                   desc[subdir])
             rest == GenerateFrom(i + 1, base_path, filename_without_ext, desc)
         IN  [thumbnail_keys |->
                 (IF t.raised THEN <<>> ELSE <<t.key>>) \o rest.thumbnail_keys,
              puts |-> (IF t.put THEN <<t.key>> ELSE <<>>) \o rest.puts,
              attempted |-> <<subdir>> \o rest.attempted]

\* generate_thumbnails(bucket, original_key, image_data): ValueError when the
\* content does not decode, else the keys whose create_thumbnail returned.
generate_thumbnails(original_key, content, desc) ==
    LET key_parts == rsplit1(original_key)
        base_path == key_parts[1]
        filename == key_parts[2]
        filename_without_ext == splitext(filename)[1]
    IN  IF ~content.decodable
        THEN [raised |-> TRUE, thumbnail_keys |-> <<>>, puts |-> <<>>,
              attempted |-> <<>>]
        ELSE [raised |-> FALSE]
                @@ GenerateFrom(1, base_path, filename_without_ext, desc)

\* What one call of process_s3_record did: whether it raised, its result, the
\* rules it evaluated in order, the keys of its get and put calls, the size of
\* the content its get returned (0: no content), the keys it wrote and the
\* descriptors it attempted.
Outcome(raised, exc, result, trace, gets, size, gen) ==
    [raised |-> raised, exc |-> exc, result |-> result, trace |-> trace,
     gets |-> gets, size |-> size, puts |-> gen.puts,
     thumbnails |-> gen.thumbnail_keys, attempted |-> gen.attempted]

NoGen == [thumbnail_keys |-> <<>>, puts |-> <<>>, attempted |-> <<>>]

\* A notification record; one without its 's3' fields is MalformedRecord.
S3Record(key) == [wellformed |-> TRUE, bucket |-> BUCKET_NAME, key |-> key]

MalformedRecord == [wellformed |-> FALSE, bucket |-> "", key |-> <<>>]

\* A guard that looks for the marker in the directory part only.
IsThumbnailKey_DirnameOnly(key) == Contains(rsplit1(key)[1], RecursionMarker)

\* if '/thumb-' in key
IsThumbnailKey(key) == Contains(key, RecursionMarker)

\* key_parts = key.split('/'); len(key_parts) < 5 or key_parts[0] != 'users'
InvalidKeyStructure(key) ==
    LET key_parts == split(key)
    IN  Len(key_parts) < 5 \/ key_parts[1] # RootSegment

\* An extension rule that gives way to the structure rule: the two rules swapped.
UnsupportedFormat_AfterStructure(key) ==
    ~InvalidKeyStructure(key) /\ lower(splitext(key)[2]) \notin SUPPORTED_FORMATS

\* file_ext = os.path.splitext(key)[1].lower(); file_ext not in SUPPORTED_FORMATS
UnsupportedFormat(key) == lower(splitext(key)[2]) \notin SUPPORTED_FORMATS

\* A size rule in whole megabytes (// for /).
TooLarge_WholeMB(size) == size \div BytesPerMB > MAX_IMAGE_SIZE_MB

\* A size rule that is not strict: content of exactly the threshold is too large.
TooLarge_AtThreshold(size) == size >= MAX_IMAGE_SIZE_MB * BytesPerMB

\* image_size_mb = len(image_data) / (1024 * 1024); image_size_mb > MAX_IMAGE_SIZE_MB
TooLarge(size) == size > MAX_IMAGE_SIZE_MB * BytesPerMB

\* process_s3_record(record), against the store st (the keys present) and env.
process_s3_record(record, st, env) ==
    IF ~record.wellformed
    THEN Outcome(TRUE, "KeyError", FailedResult(""), <<>>, <<>>, 0, NoGen)
    ELSE
    LET key == unquote_plus(record.key)
    IN  IF IsThumbnailKey(key)
        THEN Outcome(FALSE, "", SkippedResult("Already a thumbnail"),
                     <<"decode", "derivative">>, <<>>, 0, NoGen)
        ELSE IF UnsupportedFormat(key)
        THEN Outcome(FALSE, "", SkippedResult("Unsupported format"),
                     <<"decode", "derivative", "extension">>, <<>>, 0, NoGen)
        ELSE IF InvalidKeyStructure(key)
        THEN Outcome(FALSE, "", SkippedResult("Invalid key structure"),
                     <<"decode", "derivative", "extension", "structure">>,
                     <<>>, 0, NoGen)
        ELSE IF env.fetch.error \/ key \notin st
        THEN Outcome(TRUE, "ClientError", FailedResult(""),
                     <<"decode", "derivative", "extension", "structure",
                       "fetch">>, <<key>>, 0, NoGen)
        ELSE IF TooLarge(env.fetch.size)
        THEN Outcome(FALSE, "", SkippedResult("Image too large"),
                     <<"decode", "derivative", "extension", "structure",
                       "fetch", "size">>, <<key>>, env.fetch.size, NoGen)
        ELSE LET gen == generate_thumbnails(key, env.fetch, env.desc)
                 trace == <<"decode", "derivative", "extension", "structure",
                            "fetch", "size", "generate">>
             IN  IF gen.raised
                 THEN Outcome(TRUE, "ValueError", FailedResult(""), trace,
                              <<key>>, env.fetch.size, gen)
                 ELSE Outcome(FALSE, "",
                              GeneratedResult(key, gen.thumbnail_keys), trace,
                              <<key>>, env.fetch.size, gen)

\* The environments that differ in what the record can observe: the descriptors'
\* outcomes matter only to a call that reaches generate_thumbnails' loop.
EnvsOf(record, st) ==
    UNION { LET probe == process_s3_record(record, st, Env(f, AllOk))
            IN  {Env(f, d) : d \in (IF probe.attempted # <<>> THEN DescEnvs
                                                            ELSE {AllOk})}
            : f \in FetchEnvs }

\* A loop body without the inner try: the record's exception leaves the loop.
HandleRecord_NoTry(record, st, env) == process_s3_record(record, st, env)

\* The body of lambda_handler's loop: the record's result, or a failed result
\* carrying the exception.
HandleRecord(record, st, env) ==
    LET out == process_s3_record(record, st, env)
    IN  IF out.raised
        THEN [out EXCEPT !.raised = FALSE, !.result = FailedResult(out.exc)]
        ELSE out

\* lambda_handler's return value for the results it collected.
HandlerResponse(res) ==
    [statusCode |-> 200,
     successful |-> Cardinality({i \in 1..Len(res) : res[i].success}),
     total |-> Len(res)]

HandlerError == [statusCode |-> 500, successful |-> 0, total |-> 0]

(***************************************************************************)
(* backfill_thumbnails.py: configuration, the store's listing, the probe.  *)
(***************************************************************************)
DEFAULT_BATCH_SIZE == 10

SUPPORTED_EXTENSIONS ==
    {<<".", "jpg">>, <<".", "jpeg">>, <<".", "png">>, <<".", "webp">>}

THUMBNAIL_MARKER == <<"/", "thumb-">>

\* Prefix='users/' of list_objects_v2
ListPrefix == <<"users", "/">>

\* The keys a bucket may hold when a scan starts, in the order list_objects_v2
\* returns keys (by their bytes): '+' < '.' < '/', '2' < '6' < 'a', '1' < 'x'.
ListingOrder ==
    << <<"other", "/", "1", "/", "plant", "/", "7", "/", "a", ".", "jpg">>,
       <<"users", "/", "1", "/", "plant", "/", "7", "/", "a", "+", "b", ".", "jpg">>,
       <<"users", "/", "1", "/", "plant", "/", "7", "/", "a", ".", "jpg">>,
       <<"users", "/", "1", "/", "plant", "/", "7", "/", "a", ".", "png">>,
       <<"users", "/", "1", "/", "plant", "/", "7", "/", "b", ".", "JPG">>,
       <<"users", "/", "1", "/", "plant", "/", "7", "/", "doc", ".", "txt">>,
       <<"users", "/", "1", "/", "plant", "/", "7", "/", "thumb-", "200", "/", "a",
         ".", "webp">>,
       <<"users", "/", "1", "/", "plant", "/", "7", "/", "thumb-", "64", "/", "a",
         ".", "webp">>,
       <<"users", "/", "1", "/", "plant", "/", "7", "/", "thumb-", "64", "/", "b",
         ".", "webp">>,
       <<"users", "/", "1", "/", "plant", "/", "7", "/", "thumb-", "a", ".", "jpg">>,
       <<"users", "/", "x", ".", "jpg">> >>

ListingKeys == {ListingOrder[i] : i \in 1..Len(ListingOrder)}

\* The positions in ListingOrder of the objects a list call may return after
\* position token (0: from the start).
Listed(st, token) ==
    {i \in (token + 1)..Len(ListingOrder) :
        ListingOrder[i] \in st /\ StartsWith(ListingOrder[i], ListPrefix)}

\* The n smallest members of a set of positions, in order.
RECURSIVE FirstN(_, _)
FirstN(ps, n) ==
    IF n = 0 \/ ps = {} THEN <<>>
    ELSE LET lo == CHOOSE i \in ps : \A j \in ps : i <= j
         IN  <<lo>> \o FirstN(ps \ {lo}, n - 1)

\* s3_client.list_objects_v2(Bucket, Prefix='users/'[, ContinuationToken]): one
\* page.  The continuation token is the position of the last key returned.
list_objects_v2(st, token) ==
    LET rest == Listed(st, token)
        got == FirstN(rest, PageSize)
    IN  [Contents |-> [i \in 1..Len(got) |-> ListingOrder[got[i]]],
         IsTruncated |-> Cardinality(rest) > PageSize,
         NextContinuationToken |-> IF got = <<>> THEN token ELSE got[Len(got)]]

\* A probe key that keeps the original's extension.
probe_key_KeepExtension(original_key) ==
    LET key_parts == rsplit1(original_key)
    IN  key_parts[1] \o <<"/", "thumb-", "64", "/">> \o key_parts[2]
            \o <<".", "webp">>

\* The key has_thumbnails probes: f"{base_path}/thumb-64/{filename_without_ext}.webp"
probe_key(original_key) ==
    LET key_parts == rsplit1(original_key)
    IN  key_parts[1] \o <<"/", "thumb-", "64", "/">> \o splitext(key_parts[2])[1]
            \o <<".", "webp">>

\* A probe that asks for the whole derivative set.
has_thumbnails_FullSet(st, original_key, head_error) ==
    /\ Len(rsplit1(original_key)) = 2
    /\ ~head_error
    /\ \A v \in Subdirs :
          rsplit1(original_key)[1] \o <<"/">> \o v \o <<"/">>
              \o splitext(rsplit1(original_key)[2])[1] \o <<".", "webp">> \in st

\* has_thumbnails(bucket, original_key): head_object of the thumb-64 key; a 404
\* and any other ClientError (head_error) both answer False.
has_thumbnails(st, original_key, head_error) ==
    IF Len(rsplit1(original_key)) # 2 THEN FALSE
    ELSE IF head_error THEN FALSE
    ELSE probe_key(original_key) \in st

\* A candidate test without the marker test: the extension alone decides.
IsScanCandidate_ExtensionOnly(key) ==
    lower(splitext(key)[2]) \in SUPPORTED_EXTENSIONS

\* Whether find_images_needing_thumbnails probes the key at all.
IsScanCandidate(key) ==
    /\ ~Contains(key, THUMBNAIL_MARKER)
    /\ lower(splitext(key)[2]) \in SUPPORTED_EXTENSIONS

\* d.get(k), with None read as False
DictGet(d, k) == IF k \in DOMAIN d THEN d[k] ELSE FALSE

\* lambda_client.invoke(InvocationType='RequestResponse'): the service answers
\* 200 whenever the function was invoked, whatever the function returned.
InvokeResponse(payload) == [StatusCode |-> 200, Payload |-> payload]

\* invoke_thumbnail_lambda(bucket, key): the response of the remote
\* lambda_handler to a one-record event, or the ClientError of the invoke call.
invoke_thumbnail_lambda(key, st, env, invoke_error) ==
    IF invoke_error
    THEN [returned |-> [success |-> FALSE, error |-> "ClientError"],
          remote |-> Outcome(FALSE, "", FailedResult("ClientError"), <<>>, <<>>, 0,
                             NoGen),
          sent |-> <<S3Record(key)>>,
          invoked |-> FALSE]
    ELSE LET out == HandleRecord(S3Record(key), st, env)
             resp == InvokeResponse(HandlerResponse(<<out.result>>))
         IN  [returned |-> [success |-> resp.StatusCode = 200,
                            response |-> resp],
              remote |-> out,
              sent |-> <<S3Record(key)>>,
              invoked |-> TRUE]

\* generate_thumbnails_for_key(bucket, key): process_s3_record on a mock record
generate_thumbnails_for_key(key, st, env) ==
    process_s3_record(S3Record(key), st, env)

\* Whether a storage call of the record's processing failed: its get, or a put
\* that was made and stored nothing.
StorageFailed(out) ==
    \/ out.raised /\ out.exc = "ClientError"
    \/ Len(out.puts) > Len(out.thumbnails)

\* How the processing of an item ended: with an error, as a skip, or generated.
EndOf(raised, result) ==
    IF raised \/ ~result.success THEN "error"
    ELSE IF result.skipped THEN "skipped"
    ELSE "generated"

\* process_single_image(bucket, key, generator_func): the dict the future holds,
\* the objects written meanwhile and how the item's processing ended.
process_single_image(key, generator, st, env, invoke_error) ==
    IF generator = "local"
    THEN LET out == generate_thumbnails_for_key(key, st, env)
         IN  [result |-> IF out.raised
                         THEN [success |-> FALSE, error |-> out.exc, key |-> key]
                         ELSE out.result,
              thumbnails |-> out.thumbnails,
              ended |-> EndOf(out.raised, out.result),
              storage_failed |-> StorageFailed(out),
              via |-> "local",
              sent |-> <<>>,
              gets |-> out.gets]
    ELSE LET inv == invoke_thumbnail_lambda(key, st, env, invoke_error)
         IN  [result |-> inv.returned,
              thumbnails |-> inv.remote.thumbnails,
              ended |-> EndOf(FALSE, inv.remote.result),
              storage_failed |-> inv.invoked /\ StorageFailed(inv.remote),
              via |-> "remote",
              sent |-> inv.sent,
              gets |-> inv.remote.gets]

\* The body of "for future in as_completed(future_to_key)"
FoldResult(st, result) ==
    IF DictGet(result, "success")
    THEN IF DictGet(result, "skipped")
         THEN [st EXCEPT !.skipped = @ + 1]
         ELSE [st EXCEPT !.successful = @ + 1]
    ELSE [st EXCEPT !.failed = @ + 1]

\* The counter FoldResult adds the result to.
CounterOf(result) ==
    IF DictGet(result, "success")
    THEN IF DictGet(result, "skipped") THEN "skipped" ELSE "successful"
    ELSE "failed"

(***************************************************************************)
(* Sample keys: every directory below with every file name below.  They    *)
(* are the raw (still URL-encoded) keys a notification record may carry.   *)
(***************************************************************************)
SampleDirs ==
    { <<"users", "/", "1", "/", "plant", "/", "7", "/">>,
      <<"users", "/">>,
      <<"notusers", "/">>,
      <<"notusers", "/", "1", "/", "plant", "/", "7", "/">>,
      <<"users", "/", "/", "plant", "/", "7", "/">>,
      <<"users", "/", "1", "/", "plant", "/", "7", "/", "thumb-", "64", "/">>,
      <<"users", "%", "2F", "1", "/", "plant", "/", "7", "/">>,
      <<"users", "/", "1", "/", "plant", "/", "7", "%", "2F", "thumb-", "64", "/">>,
      <<"thumb-", "64", "/">>,
      <<"notusers", "%", "2F">>,
      <<>> }

SampleFiles ==
    { <<"a", ".", "jpg">>,
      <<"a", ".", "JPG">>,
      <<"a", ".", "png">>,
      <<"a", ".", "webp">>,
      <<"a", ".", "txt">>,
      <<"a">>,
      <<".", "jpg">>,
      <<"a", ".", "b", ".", "jpeg">>,
      <<"a", "+", "b", ".", "jpg">>,
      <<"a", "%", "2B", "b", ".", "jpg">>,
      <<"a", "%", ".", "jpg">>,
      <<"thumb-", "a", ".", "jpg">>,
      <<"thumb-", "a">> }

SampleKeys == {d \o f : d \in SampleDirs, f \in SampleFiles}

\* The records of the batches longer than one record.
BatchRecords ==
    { MalformedRecord,
      S3Record(<<"users", "/", "1", "/", "plant", "/", "7", "/", "a", ".", "jpg">>),
      S3Record(<<"users", "/", "1", "/", "plant", "/", "7", "/", "thumb-", "64",
                 "/", "a", ".", "webp">>),
      S3Record(<<"notusers", "/", "a", ".", "txt">>),
      S3Record(<<"notusers", "/", "x", ".", "jpg">>) }

RECURSIVE SeqsUpTo(_, _)
SeqsUpTo(S, n) ==
    IF n = 0 THEN {<<>>}
    ELSE LET shorter == SeqsUpTo(S, n - 1)
         IN  shorter \cup {Append(q, x) : q \in shorter, x \in S}

\* lambda_handler's event: its 'Records', or a value the loop cannot iterate.
Event(records) == [iterable |-> TRUE, Records |-> records]

BrokenEvent == [iterable |-> FALSE, Records |-> <<>>]

EventInputs ==
    {Event(<<S3Record(k)>>) : k \in SampleKeys}
        \cup {Event(q) : q \in SeqsUpTo(BatchRecords, MaxRecords)}
        \cup {BrokenEvent}

\* The objects the records of an event name.
ObjectsOf(ev) == {unquote_plus(ev.Records[i].key) : i \in 1..Len(ev.Records)}

(***************************************************************************)
(* Groups of variables and the idle values.                                *)
(***************************************************************************)
evVars == <<queue, event, evPc, evIdx, results, response, lastOut,
            uploads, writes, notified, calls, render>>

bfVars == <<cfg, bfPc, scan, items, batch, stats, ledger, bfResponse>>

vars == <<store, evVars, bfVars>>

\* max_images=None
NoCap == -1

NoScan ==
    [token |-> 0, page |-> <<>>, truncated |-> FALSE, next |-> 0, pos |-> 0,
     images |-> <<>>, lists |-> 0, probes |-> 0, probeErrors |-> {},
     capped |-> FALSE, tokens |-> <<>>, examined |-> <<>>, probed |-> <<>>]

\* bucket: the entry point has a bucket name (BUCKET_NAME, or --bucket for main);
\* bucket_env: BUCKET_NAME is in os.environ; cli: the run was entered through
\* main; pillow: generate_thumbnails' own imports succeed; function_name:
\* THUMBNAIL_FUNCTION_NAME is set.
NoCfg ==
    [bucket |-> TRUE, bucket_env |-> TRUE, cli |-> FALSE, dry_run |-> FALSE,
     batch_size |-> 1, max_images |-> NoCap, pillow |-> TRUE,
     function_name |-> FALSE]

NoBatch ==
    [generator |-> "none", error |-> "", i |-> 0, futures |-> <<>>, sleeps |-> 0]

NoStats == [total |-> 0, successful |-> 0, skipped |-> 0, failed |-> 0]

\* The process has not exited.
NoExit == -1

\* statusCode: of lambda_handler's response; exit: the exit status of main.
NoBfResponse == [statusCode |-> 0, exit |-> NoExit, body |-> [error |-> "none"]]

\* The ledger of a run over n items, before any of them is processed.
NewLedger(n) ==
    [attempts |-> [j \in 1..n |-> 0],
     ended |-> [j \in 1..n |-> "none"],
     storage_failed |-> [j \in 1..n |-> FALSE],
     via |-> [j \in 1..n |-> "none"],
     sent |-> [j \in 1..n |-> <<>>],
     written |-> [j \in 1..n |-> <<>>],
     fetched |-> [j \in 1..n |-> <<>>],
     counted |-> [j \in 1..n |-> "none"]]

\* No item is in process and nothing was returned.
BatchIdle ==
    /\ items = <<>>
    /\ batch = NoBatch
    /\ stats = NoStats
    /\ ledger = NewLedger(0)
    /\ bfResponse = NoBfResponse

\* No backfill runs.
BackfillIdle ==
    /\ cfg = NoCfg
    /\ bfPc = "idle"
    /\ scan = NoScan
    /\ BatchIdle

\* No call of generate_thumbnails was made apart from process_s3_record's.
NoCalls ==
    [original_key |-> <<>>, decodable |-> FALSE, count |-> 0,
     last |-> [raised |-> FALSE, thumbnail_keys |-> <<>>, puts |-> <<>>,
               attempted |-> <<>>, desc |-> AllOk],
     previous |-> [thumbnail_keys |-> <<>>, clean |-> TRUE],
     before |-> {}]

\* No lambda_handler invocation runs and no notification is queued.
HandlerIdle ==
    /\ queue = <<>>
    /\ event = Event(<<>>)
    /\ evPc = "idle"
    /\ evIdx = 0
    /\ results = <<>>
    /\ response = [statusCode |-> 0, successful |-> 0, total |-> 0]
    /\ lastOut = Outcome(FALSE, "", FailedResult("none"), <<>>, <<>>, 0, NoGen)
    /\ uploads = 0
    /\ writes = 0
    /\ notified = 0

\* create_thumbnail was not called on its own.
NoRender ==
    [pc |-> "none", size |-> <<0, 0>>, target |-> <<0, 0>>,
     new_size |-> <<0, 0>>, box |-> <<0, 0, 0, 0>>, cropped_size |-> <<0, 0>>]

EventIdle == HandlerIdle /\ calls = NoCalls /\ render = NoRender

NoResponse == [statusCode |-> 0, successful |-> 0, total |-> 0]

NoOutcome == Outcome(FALSE, "", FailedResult("none"), <<>>, <<>>, 0, NoGen)

\* The notifications of the objects a put created: the bucket notifies
\* OBJECT_CREATED under the prefix 'users/'.
Notifications(keys) ==
    LET hit == SelectSeq(keys, LAMBDA k : StartsWith(k, NotificationPrefix))
    IN  [i \in 1..Len(hit) |-> S3Record(S3UrlEncode(hit[i]))]

SeqToSet(q) == {q[i] : i \in 1..Len(q)}

(***************************************************************************)
(* generate_thumbnails.lambda_handler, one loop iteration per step.        *)
(***************************************************************************)
InitEvent ==
    /\ event \in EventInputs
    /\ store \in {{}, ObjectsOf(event)}    \* the objects are there, or are not
    /\ queue = <<>>
    /\ evPc = "loop"
    /\ evIdx = 0
    /\ results = <<>>
    /\ response = NoResponse
    /\ lastOut = NoOutcome
    /\ uploads = 0
    /\ writes = 0
    /\ notified = 0
    /\ calls = NoCalls
    /\ render = NoRender
    /\ BackfillIdle

\* for record in event.get('Records', []): try process_s3_record / except
LambdaRecord ==
    /\ evPc = "loop"
    /\ event.iterable
    /\ evIdx < Len(event.Records)
    /\ \E env \in EnvsOf(event.Records[evIdx + 1], store) :
        \E out \in {HandleRecord(event.Records[evIdx + 1], store, env)} :
        LET notes == Notifications(out.thumbnails)
        IN  /\ evIdx' = evIdx + 1
            /\ lastOut' = out
            /\ store' = store \cup SeqToSet(out.thumbnails)
            /\ writes' = writes + Len(out.thumbnails)
            /\ queue' = queue \o notes
            /\ notified' = notified + Len(notes)
            /\ IF out.raised
               THEN \* the exception leaves the loop: the outer except answers
                    /\ response' = HandlerError
                    /\ evPc' = "done"
                    /\ UNCHANGED results
               ELSE /\ results' = Append(results, out.result)
                    /\ UNCHANGED <<response, evPc>>
    /\ UNCHANGED <<event, uploads, calls, render, bfVars>>

\* the loop is over: log the summary and return statusCode 200
LambdaReturn ==
    /\ evPc = "loop"
    /\ event.iterable
    /\ evIdx = Len(event.Records)
    /\ response' = HandlerResponse(results)
    /\ evPc' = "done"
    /\ UNCHANGED <<store, queue, event, evIdx, results, lastOut, uploads,
                   writes, notified, calls, render, bfVars>>

\* the outer except: statusCode 500
LambdaFail ==
    /\ evPc = "loop"
    /\ ~event.iterable
    /\ response' = HandlerError
    /\ evPc' = "done"
    /\ UNCHANGED <<store, queue, event, evIdx, results, lastOut, uploads,
                   writes, notified, calls, render, bfVars>>

Init == InitEvent

Next == LambdaRecord \/ LambdaReturn \/ LambdaFail

Spec == Init /\ [][Next]_vars

(***************************************************************************)
(* The notification cascade: uploads create objects, the bucket queues a   *)
(* notification for every object created under 'users/' (uploads and the   *)
(* pipeline's own puts alike) and invokes lambda_handler with one record   *)
(* per notification, in any order.                                         *)
(***************************************************************************)
\* The keys uploaded: stored keys, not URL-encoded.
UploadKeys ==
    { <<"users", "/", "1", "/", "plant", "/", "7", "/", "a", ".", "jpg">>,
      <<"users", "/", "1", "/", "plant", "/", "7", "/", "a", " ", "b", "+", "c",
        "%", "2F", "thumb-", "x", ".", "png">>,
      <<"users", "/", "1", "/", "plant", "/", "7", "/", "thumb-", "64", "/", "a",
        ".", "webp">>,
      <<"other", "/", "1", "/", "plant", "/", "7", "/", "a", ".", "jpg">> }

InitCascade ==
    /\ store = {}
    /\ queue = <<>>
    /\ event = Event(<<>>)
    /\ evPc = "idle"
    /\ evIdx = 0
    /\ results = <<>>
    /\ response = NoResponse
    /\ lastOut = NoOutcome
    /\ uploads = 0
    /\ writes = 0
    /\ notified = 0
    /\ calls = NoCalls
    /\ render = NoRender
    /\ BackfillIdle

\* An upload (the application's, outside this pipeline) stores an original.
Upload ==
    /\ uploads < MaxUploads
    /\ \E k \in UploadKeys :
        /\ store' = store \cup {k}
        /\ queue' = queue \o Notifications(<<k>>)
        /\ notified' = notified + Len(Notifications(<<k>>))
    /\ uploads' = uploads + 1
    /\ UNCHANGED <<event, evPc, evIdx, results, response, lastOut, writes,
                   calls, render, bfVars>>

\* The bucket invokes the function with one queued notification.
Deliver ==
    /\ evPc \in {"idle", "done"}
    /\ \E i \in 1..Len(queue) :
        /\ event' = Event(<<queue[i]>>)
        /\ queue' = SubSeq(queue, 1, i - 1) \o SubSeq(queue, i + 1, Len(queue))
    /\ evPc' = "loop"
    /\ evIdx' = 0
    /\ results' = <<>>
    /\ response' = NoResponse
    /\ lastOut' = NoOutcome
    /\ UNCHANGED <<store, uploads, writes, notified, calls, render, bfVars>>

NextCascade == Upload \/ Deliver \/ LambdaRecord \/ LambdaReturn

SpecCascade == InitCascade /\ [][NextCascade]_vars

(***************************************************************************)
(* generate_thumbnails(bucket, original_key, image_data) called on one     *)
(* original, once or again, under every outcome of its four descriptors.   *)
(***************************************************************************)
\* Decoded keys of originals that pass process_s3_record's rules.
GenerateKeys ==
    { <<"users", "/", "42", "/", "plant", "/", "7", "/", "abc-123", ".", "jpg">>,
      <<"users", "/", "1", "/", "plant", "/", "7", "/", "a", ".", "b", ".", "jpeg">>,
      <<"users", "/", "1", "/", "plant", "/", "7", "/", "a", " ", "b", ".", "PNG">>,
      <<"users", "/", "1", "/", "plant", "/", "7", "/", "sub", "/", "a", ".", "webp">> }

InitGenerate ==
    /\ \E key \in GenerateKeys, decodable \in BOOLEAN :
        /\ store = {key}
        /\ calls = [NoCalls EXCEPT !.original_key = key, !.decodable = decodable]
    /\ render = NoRender
    /\ HandlerIdle
    /\ BackfillIdle

\* One call of generate_thumbnails; the keys whose put succeeded are in the bucket
\* afterwards.
GenerateCall ==
    /\ calls.original_key # <<>>
    /\ calls.count < MaxCalls
    /\ \E desc \in [Subdirs -> DescOutcomes] :
        \E out \in {generate_thumbnails(calls.original_key,
                                        [decodable |-> calls.decodable], desc)} :
            /\ store' = store \cup SeqToSet(out.thumbnail_keys)
            /\ calls' = [calls EXCEPT
                            !.count = @ + 1,
                            !.last = [raised |-> out.raised,
                                      thumbnail_keys |-> out.thumbnail_keys,
                                      puts |-> out.puts,
                                      attempted |-> out.attempted,
                                      desc |-> desc],
                            !.previous = [thumbnail_keys |-> calls.last.thumbnail_keys,
                                          clean |-> calls.last.desc = AllOk],
                            !.before = store]
    /\ UNCHANGED <<queue, event, evPc, evIdx, results, response, lastOut, uploads,
                   writes, notified, render, bfVars>>

NextGenerate == GenerateCall

SpecGenerate == InitGenerate /\ [][NextGenerate]_vars

(***************************************************************************)
(* Two originals in one bucket: generate_thumbnails is called on each, as   *)
(* for two uploads, and has_thumbnails probes each, as a scan does.         *)
(***************************************************************************)
\* Decoded keys of originals that pass process_s3_record's rules.
PairKeys ==
    { <<"users", "/", "1", "/", "plant", "/", "7", "/", "a", ".", "jpg">>,
      <<"users", "/", "1", "/", "plant", "/", "7", "/", "a", ".", "png">>,
      <<"users", "/", "1", "/", "plant", "/", "7", "/", "a", ".", "b", ".", "jpg">>,
      <<"users", "/", "1", "/", "plant", "/", "7", "/", "b", ".", "jpg">>,
      <<"users", "/", "2", "/", "plant", "/", "7", "/", "a", ".", "jpg">> }

InitPair ==
    /\ items \in {pair \in PairKeys \X PairKeys : pair[1] # pair[2]}
    /\ store = SeqToSet(items)
    /\ EventIdle
    /\ cfg = NoCfg
    /\ bfPc = "pair"
    /\ scan = NoScan
    /\ batch = NoBatch
    /\ stats = NoStats
    /\ ledger = NewLedger(Len(items))
    /\ bfResponse = NoBfResponse

\* generate_thumbnails(bucket, original_key, image_data) on the j-th original;
\* the keys whose put succeeded are in the bucket afterwards.
PairGenerate(j) ==
    /\ bfPc = "pair"
    /\ ledger.attempts[j] = 0
    /\ \E desc \in [Subdirs -> DescOutcomes] :
        \E out \in {generate_thumbnails(items[j], [decodable |-> TRUE], desc)} :
            /\ store' = store \cup SeqToSet(out.thumbnail_keys)
            /\ ledger' = [ledger EXCEPT !.attempts[j] = @ + 1,
                                        !.ended[j] = "generated",
                                        !.via[j] = "local",
                                        !.written[j] = out.thumbnail_keys]
    /\ UNCHANGED <<evVars, cfg, bfPc, scan, items, batch, stats, bfResponse>>

\* if not has_thumbnails(bucket, key): images_needing_thumbnails.append(key),
\* for the j-th original
PairProbe(j) ==
    /\ bfPc = "pair"
    /\ items[j] \notin SeqToSet(scan.examined)
    /\ scan' = [scan EXCEPT
                  !.examined = Append(@, items[j]),
                  !.probed = Append(@, items[j]),
                  !.probes = @ + 1,
                  !.images = IF has_thumbnails(store, items[j], FALSE)
                             THEN @ ELSE Append(@, items[j])]
    /\ UNCHANGED <<store, evVars, cfg, bfPc, items, batch, stats, ledger,
                   bfResponse>>

NextPair ==
    \/ \E j \in 1..Len(items) : PairGenerate(j)
    \/ \E j \in 1..Len(items) : PairProbe(j)

SpecPair == InitPair /\ [][NextPair]_vars

(***************************************************************************)
(* create_thumbnail's geometry.  scale_width, scale_height and scale are   *)
(* Python floats (IEEE 754 binary64) and int() truncates; the operators    *)
(* below compute int(n * (t / s)) as the floats do, in integers: t / s is  *)
(* the double nearest to the ratio, its product with n is rounded to a     *)
(* double again (ties to even), and int() drops the fraction.              *)
(***************************************************************************)
\* Bits of a double's fraction.
FractionBits == 52

RECURSIVE Pow2(_)
Pow2(n) == IF n <= 0 THEN 1 ELSE 2 * Pow2(n - 1)

\* The exponent e of the ratio t / s: 2^e <= t / s < 2^(e + 1).
RECURSIVE Exponent(_, _)
Exponent(t, s) ==
    IF t >= 2 * s THEN Exponent(t, 2 * s) + 1
    ELSE IF t < s THEN Exponent(2 * t, s) - 1
    ELSE 0

\* (t * 2^k) mod s
RECURSIVE MulPow2Mod(_, _, _)
MulPow2Mod(t, k, s) == IF k <= 0 THEN t % s ELSE (2 * MulPow2Mod(t, k - 1, s)) % s

\* t / s as a float: the double is (t * 2^k + c) / (s * 2^k) with
\* k = FractionBits - Exponent(t, s), its 53-bit significand being the integer
\* nearest to t * 2^k / s; this is c.  (No tie occurs for s < 2^k.)
DivisionError(t, s) ==
    LET r == MulPow2Mod(t, FractionBits - Exponent(t, s), s)
    IN  IF 2 * r < s THEN 0 - r ELSE s - r

\* int(n * (t / s)).  The exact product is n * t / s + (n * c / s) / 2^k.  When
\* n * t / s is no integer, neither rounding reaches the next integer and the
\* result is the floor of the ratio.  When it is an integer K, the product
\* rounds to a double below K, and int() gives K - 1, exactly when the product
\* lies more than half the spacing of the doubles under K below K (at half the
\* spacing the tie goes to K, whose significand is even).
IntOfProduct(n, t, s) ==
    LET K == (n * t) \div s
        d == (n * DivisionError(t, s)) \div s
        under == Exponent(K, 1) - (IF K = Pow2(Exponent(K, 1)) THEN 1 ELSE 0)
        shift == under - Exponent(t, s) - 1
    IN  IF (n * t) % s # 0 THEN K
        ELSE IF d >= 0 THEN K
        ELSE IF shift < 0 \/ 0 - d > Pow2(shift) THEN K - 1
        ELSE K

\* scale_width = target_width / img_width; scale_height = target_height /
\* img_height; scale = max(scale_width, scale_height): the ratio <<t, s>> whose
\* double is scale (the division is monotonic, so the larger ratio gives the
\* larger double).
CoverScale(img_width, img_height, target_width, target_height) ==
    IF target_width * img_height >= target_height * img_width
    THEN <<target_width, img_width>>
    ELSE <<target_height, img_height>>

\* new_width = int(img_width * scale); new_height = int(img_height * scale)
NewSize(img_width, img_height, target_width, target_height) ==
    LET scale == CoverScale(img_width, img_height, target_width, target_height)
    IN  << IntOfProduct(img_width, scale[1], scale[2]),
           IntOfProduct(img_height, scale[1], scale[2]) >>

\* left = (new_width - target_width) // 2; top = (new_height - target_height)
\* // 2; right = left + target_width; bottom = top + target_height
CropBox(new_width, new_height, target_width, target_height) ==
    LET left == (new_width - target_width) \div 2
        top == (new_height - target_height) \div 2
    IN  <<left, top, left + target_width, top + target_height>>

\* The sizes of the images rendered: every size up to MaxSide in both
\* dimensions, and some photographs.
ImageSizes ==
    ((1..MaxSide) \X (1..MaxSide))
        \cup {<<4000, 3000>>, <<3000, 4000>>, <<1920, 1080>>, <<97, 73>>}

InitRender ==
    /\ store = {}
    /\ HandlerIdle
    /\ calls = NoCalls
    /\ BackfillIdle
    /\ \E size \in ImageSizes, i \in DOMAIN THUMBNAIL_CONFIGS :
        render = [NoRender EXCEPT
                    !.pc = "opened", !.size = size,
                    !.target = <<THUMBNAIL_CONFIGS[i].width,
                                 THUMBNAIL_CONFIGS[i].height>>]

\* resized = image.resize((new_width, new_height), Image.Resampling.LANCZOS)
RenderResize ==
    /\ render.pc = "opened"
    /\ render' = [render EXCEPT
                    !.pc = "resized",
                    !.new_size = NewSize(render.size[1], render.size[2],
                                         render.target[1], render.target[2])]
    /\ UNCHANGED <<store, queue, event, evPc, evIdx, results, response, lastOut,
                   uploads, writes, notified, calls, bfVars>>

\* cropped = resized.crop((left, top, right, bottom)): the image returned has
\* the size of the box, wherever the box lies.
RenderCrop ==
    /\ render.pc = "resized"
    /\ \E b \in {CropBox(render.new_size[1], render.new_size[2],
                          render.target[1], render.target[2])} :
        render' = [render EXCEPT
                     !.pc = "cropped", !.box = b,
                     !.cropped_size = <<b[3] - b[1], b[4] - b[2]>>]
    /\ UNCHANGED <<store, queue, event, evPc, evIdx, results, response, lastOut,
                   uploads, writes, notified, calls, bfVars>>

NextRender == RenderResize \/ RenderCrop

SpecRender == InitRender /\ [][NextRender]_vars

(***************************************************************************)
(* find_images_needing_thumbnails(bucket, max_images): one list call, one  *)
(* listed object or one end of page per step.                              *)
(***************************************************************************)
\* The buckets a scan starts on: at most MaxObjects of the keys of ListingOrder.
InitialStores == {st \in SUBSET ListingKeys : Cardinality(st) <= MaxObjects}

Caps == {NoCap} \cup 0..MaxCap

InitScan ==
    /\ store \in InitialStores
    /\ EventIdle
    /\ \E cap \in Caps : cfg = [NoCfg EXCEPT !.max_images = cap]
    /\ bfPc = "scan_list"
    /\ scan = NoScan
    /\ BatchIdle

\* response = s3_client.list_objects_v2(**list_params); a ClientError is logged
\* and raised again.
ScanList ==
    /\ bfPc = "scan_list"
    /\ \E list_error \in BOOLEAN :
        IF list_error
        THEN /\ bfPc' = "raised"
             /\ scan' = [scan EXCEPT !.lists = @ + 1,
                                     !.tokens = Append(@, scan.token)]
        ELSE \E resp \in {list_objects_v2(store, scan.token)} :
             /\ bfPc' = "scan_page"
             /\ scan' = [scan EXCEPT !.lists = @ + 1,
                                     !.tokens = Append(@, scan.token),
                                     !.page = resp.Contents,
                                     !.truncated = resp.IsTruncated,
                                     !.next = resp.NextContinuationToken,
                                     !.pos = 0]
    /\ UNCHANGED <<store, evVars, cfg, items, batch, stats, ledger, bfResponse>>

\* for obj in response.get('Contents', []): the marker, the extension, the probe,
\* the cap
ScanObject ==
    /\ bfPc = "scan_page"
    /\ scan.pos < Len(scan.page)
    /\ LET key == scan.page[scan.pos + 1]
       IN  IF ~IsScanCandidate(key)
           THEN /\ scan' = [scan EXCEPT !.pos = @ + 1,
                                        !.examined = Append(@, key)]
                /\ UNCHANGED bfPc
           ELSE \E head_error \in BOOLEAN :
                LET probed == [scan EXCEPT !.pos = @ + 1, !.probes = @ + 1,
                                   !.examined = Append(@, key),
                                   !.probed = Append(@, key),
                                   !.probeErrors =
                                       IF head_error THEN @ \cup {key} ELSE @]
                IN  IF has_thumbnails(store, key, head_error)
                    THEN /\ scan' = probed
                         /\ UNCHANGED bfPc
                    ELSE LET found == Append(scan.images, key)
                         IN  IF cfg.max_images # NoCap /\ cfg.max_images # 0
                                /\ Len(found) >= cfg.max_images
                             THEN /\ scan' = [probed EXCEPT !.images = found,
                                                            !.capped = TRUE]
                                  /\ bfPc' = "scanned"
                             ELSE /\ scan' = [probed EXCEPT !.images = found]
                                  /\ UNCHANGED bfPc
    /\ UNCHANGED <<store, evVars, cfg, items, batch, stats, ledger, bfResponse>>

\* if not response.get('IsTruncated'): break; else take NextContinuationToken
ScanPageEnd ==
    /\ bfPc = "scan_page"
    /\ scan.pos = Len(scan.page)
    /\ IF ~scan.truncated
       THEN /\ bfPc' = "scanned"
            /\ UNCHANGED scan
       ELSE /\ bfPc' = "scan_list"
            /\ scan' = [scan EXCEPT !.token = scan.next]
    /\ UNCHANGED <<store, evVars, cfg, items, batch, stats, ledger, bfResponse>>

NextScan == ScanList \/ ScanObject \/ ScanPageEnd

SpecScan == InitScan /\ [][NextScan]_vars

\* The scan is one sequential loop of a running process: it takes its next step
\* whenever it has one.
SpecScanFair == SpecScan /\ WF_vars(NextScan)

(***************************************************************************)
(* process_images_in_batches(bucket, image_keys, batch_size): the choice   *)
(* of the generator, one batch of futures at a time, the workers finishing *)
(* in any order, the main thread folding each finished future.             *)
(***************************************************************************)
\* The originals and other keys handed over as image_keys.
BatchKeys ==
    { <<"users", "/", "1", "/", "plant", "/", "7", "/", "a", ".", "jpg">>,
      <<"users", "/", "1", "/", "plant", "/", "7", "/", "a", "+", "b", ".", "jpg">>,
      <<"users", "/", "x", ".", "jpg">> }

\* (pillow, function_name, bucket_env): whether generate_thumbnails' imports
\* succeed, whether
\* THUMBNAIL_FUNCTION_NAME is set.
\* THUMBNAIL_FUNCTION_NAME is set; BUCKET_NAME is in os.environ, which only the
\* import of generate_thumbnails reads (main can take the bucket from --bucket).
Capabilities ==
    {cap \in BOOLEAN \X BOOLEAN \X BOOLEAN : cap[3] \/ cap[1]}

InitBatch ==
    /\ items \in SeqsUpTo(BatchKeys, MaxItems)
    /\ store = SeqToSet(items)
    /\ EventIdle
    /\ \E size \in 1..MaxBatch, cap \in Capabilities :
        cfg = [NoCfg EXCEPT !.batch_size = size, !.pillow = cap[1],
                            !.function_name = cap[2], !.bucket_env = cap[3],
                            !.cli = ~cap[3]]
    /\ bfPc = "process"
    /\ scan = NoScan
    /\ batch = NoBatch
    /\ stats = NoStats
    /\ ledger = NewLedger(Len(items))
    /\ bfResponse = NoBfResponse

\* A choice that delegates whenever a function name is set.
SelectGenerator_PreferRemote(pillow, bucket_env, function_name) ==
    IF function_name THEN "remote"
    ELSE IF pillow THEN (IF bucket_env THEN "local" ELSE "KeyError")
    ELSE "RuntimeError"

\* try: from generate_thumbnails import generate_thumbnails_for_key (the module
\* reads os.environ['BUCKET_NAME'] when imported: KeyError without it); except
\* ImportError: the lambda that invokes the function if its name is set, else
\* RuntimeError
SelectGenerator(pillow, bucket_env, function_name) ==
    IF pillow THEN (IF bucket_env THEN "local" ELSE "KeyError")
    ELSE IF function_name THEN "remote"
    ELSE "RuntimeError"

\* range(0, total, batch_size) has a next value after i (i = 0: a first one):
\* upwards below total for a positive step, downwards above total for a negative
\* one.
InRange(i, total, batch_size) ==
    IF batch_size > 0 THEN i < total ELSE i > total

\* total = len(image_keys); the counters at 0; the import, its fallback, or the
\* RuntimeError when neither is there; then the loop's range(0, total,
\* batch_size), which raises ValueError for a step of 0.
BatchInit ==
    /\ bfPc = "process"
    /\ \E chosen \in {SelectGenerator(cfg.pillow, cfg.bucket_env,
                                       cfg.function_name)} :
        IF chosen \in {"KeyError", "RuntimeError"}
        THEN /\ bfPc' = "raised"
             /\ batch' = [NoBatch EXCEPT !.error = chosen]
             /\ UNCHANGED stats
        ELSE IF cfg.batch_size = 0
        THEN /\ bfPc' = "raised"
             /\ batch' = [NoBatch EXCEPT !.generator = chosen,
                                         !.error = "ValueError"]
             /\ UNCHANGED stats
        ELSE /\ bfPc' = "batch_loop"
             /\ batch' = [NoBatch EXCEPT !.generator = chosen]
             /\ stats' = [NoStats EXCEPT !.total = Len(items)]
    /\ UNCHANGED <<store, evVars, cfg, scan, items, ledger, bfResponse>>

\* A batch that takes every item from index i on.
BatchOf_AllRemaining(i) == {j \in 1..Len(items) : i < j}

\* The items of the batch starting at index i: image_keys[i:i + batch_size]
BatchOf(i) ==
    {j \in 1..Len(items) : i < j /\ j <= i + cfg.batch_size}

\* for i in range(0, total, batch_size): every item of the batch is submitted
BatchStart ==
    /\ bfPc = "batch_loop"
    /\ InRange(batch.i, stats.total, cfg.batch_size)
    /\ bfPc' = "batch_run"
    /\ batch' = [batch EXCEPT
                    !.futures = [j \in 1..Len(items) |->
                                    IF j \in BatchOf(batch.i)
                                    THEN [state |-> "running",
                                          result |-> [success |-> FALSE]]
                                    ELSE [state |-> "none",
                                          result |-> [success |-> FALSE]]]]
    /\ UNCHANGED <<store, evVars, cfg, scan, items, stats, ledger, bfResponse>>

\* A worker thread runs process_single_image for item j to its end.
WorkerFinish(j) ==
    /\ bfPc = "batch_run"
    /\ batch.futures[j].state = "running"
    /\ \E env \in EnvsOf(S3Record(items[j]), store),
          invoke_error \in (IF batch.generator = "remote" THEN BOOLEAN ELSE {FALSE}) :
        \E done \in {process_single_image(items[j], batch.generator, store, env,
                                          invoke_error)} :
            /\ batch' = [batch EXCEPT !.futures[j] =
                            [state |-> "done", result |-> done.result]]
            /\ store' = store \cup SeqToSet(done.thumbnails)
            /\ ledger' = [ledger EXCEPT !.attempts[j] = @ + 1,
                                        !.ended[j] = done.ended,
                                        !.storage_failed[j] = done.storage_failed,
                                        !.via[j] = done.via,
                                        !.sent[j] = done.sent,
                                        !.written[j] = done.thumbnails,
                                        !.fetched[j] = done.gets]
    /\ UNCHANGED <<evVars, cfg, bfPc, scan, items, stats, bfResponse>>

\* The main thread takes a finished future from as_completed and counts it.
Fold(j) ==
    /\ bfPc = "batch_run"
    /\ batch.futures[j].state = "done"
    /\ stats' = FoldResult(stats, batch.futures[j].result)
    /\ batch' = [batch EXCEPT !.futures[j].state = "counted"]
    /\ ledger' = [ledger EXCEPT !.counted[j] = CounterOf(batch.futures[j].result)]
    /\ UNCHANGED <<store, evVars, cfg, bfPc, scan, items, bfResponse>>

\* A throttle that sleeps after every batch.
ShouldSleep_EveryBatch(i) == TRUE

\* if i + batch_size < total: time.sleep(DEFAULT_DELAY_SECONDS)
ShouldSleep(i) == i + cfg.batch_size < stats.total

\* The executor is left once every future of the batch was counted; the sleep
\* between batches when i + batch_size < total.
BatchEnd ==
    /\ bfPc = "batch_run"
    /\ \A j \in BatchOf(batch.i) : batch.futures[j].state = "counted"
    /\ bfPc' = "batch_loop"
    /\ batch' = [batch EXCEPT
                    !.i = @ + cfg.batch_size,
                    !.sleeps = IF ShouldSleep(batch.i) THEN @ + 1 ELSE @]
    /\ UNCHANGED <<store, evVars, cfg, scan, items, stats, ledger, bfResponse>>

\* return stats
BatchReturn ==
    /\ bfPc = "batch_loop"
    /\ ~InRange(batch.i, stats.total, cfg.batch_size)
    /\ bfPc' = "processed"
    /\ UNCHANGED <<store, evVars, cfg, scan, items, batch, stats, ledger,
                   bfResponse>>

NextBatch ==
    \/ BatchInit
    \/ BatchStart
    \/ \E j \in 1..Len(items) : WorkerFinish(j)
    \/ \E j \in 1..Len(items) : Fold(j)
    \/ BatchEnd
    \/ BatchReturn

SpecBatch == InitBatch /\ [][NextBatch]_vars

\* The batch sizes the entry points pass on: lambda_handler hands over the
\* event's batchSize and main its --batch-size (type=int) as they are.
BatchSizes == (0 - MaxBatch)..MaxBatch

\* process_images_in_batches with any batch size, on a process that has its
\* generator.
InitAnyBatchSize ==
    /\ items \in SeqsUpTo(BatchKeys, MaxItems)
    /\ store = SeqToSet(items)
    /\ EventIdle
    /\ \E size \in BatchSizes, function_name \in BOOLEAN :
        cfg = [NoCfg EXCEPT !.batch_size = size, !.pillow = ~function_name,
                            !.function_name = function_name]
    /\ bfPc = "process"
    /\ scan = NoScan
    /\ batch = NoBatch
    /\ stats = NoStats
    /\ ledger = NewLedger(Len(items))
    /\ bfResponse = NoBfResponse

SpecAnyBatchSize == InitAnyBatchSize /\ [][NextBatch]_vars

(***************************************************************************)
(* backfill_thumbnails.py's lambda_handler and backfill_thumbnails: the    *)
(* bucket check, the scan, the dry run or the batches, the response.       *)
(***************************************************************************)
\* images_to_process[:20] of a dry run
DryRunSampleSize == 20

\* The objects of the buckets a whole run starts on.
BackfillObjects ==
    { <<"users", "/", "1", "/", "plant", "/", "7", "/", "a", ".", "jpg">>,
      <<"users", "/", "1", "/", "plant", "/", "7", "/", "thumb-", "64", "/", "a",
        ".", "webp">>,
      <<"users", "/", "x", ".", "jpg">> }

\* The entry point (lambda_handler or main), its dryRun, batchSize
\* (DEFAULT_BATCH_SIZE when absent) and maxImages (None when absent), and the
\* process' capabilities; one configuration of each entry point stands for those
\* without a bucket name.  lambda_handler has its bucket from BUCKET_NAME only.
BackfillCfgs ==
    {[NoCfg EXCEPT !.bucket = FALSE, !.bucket_env = FALSE, !.cli = cli] :
        cli \in BOOLEAN} \cup
    {c \in {[bucket |-> TRUE, bucket_env |-> cp[3], cli |-> cli, dry_run |-> dry,
              batch_size |-> size, max_images |-> cap, pillow |-> cp[1],
              function_name |-> cp[2]] :
                cli \in BOOLEAN, dry \in BOOLEAN,
                size \in (1..MaxBatch) \cup {DEFAULT_BATCH_SIZE},
                cap \in Caps, cp \in Capabilities} :
        c.bucket_env \/ c.cli}

InitBackfill ==
    /\ store \in {st \in SUBSET BackfillObjects : Cardinality(st) <= MaxObjects}
    /\ EventIdle
    /\ cfg \in BackfillCfgs
    /\ bfPc = "start"
    /\ scan = NoScan
    /\ BatchIdle

\* bucket = os.environ.get('BUCKET_NAME'); if not bucket: return 400
HandlerStart ==
    /\ bfPc = "start"
    /\ ~cfg.cli
    /\ IF ~cfg.bucket
       THEN /\ bfPc' = "returned"
            /\ bfResponse' = [statusCode |-> 400, exit |-> NoExit,
                              body |-> [error |-> "BUCKET_NAME not configured"]]
       ELSE /\ bfPc' = "scan_list"
            /\ UNCHANGED bfResponse
    /\ UNCHANGED <<store, evVars, cfg, scan, items, batch, stats, ledger>>

\* A dry run that answers with every candidate.
DryRunBody_Whole(images) ==
    [dryRun |-> TRUE, totalImages |-> Len(images), sampleImages |-> images]

\* The dry run's answer: the count and images_to_process[:20]
DryRunBody(images) ==
    [dryRun |-> TRUE,
     totalImages |-> Len(images),
     sampleImages |-> SubSeq(images, 1,
                             IF Len(images) < DryRunSampleSize
                             THEN Len(images) ELSE DryRunSampleSize)]

\* backfill_thumbnails after the scan: the dry run's answer, or the batches
AfterScan ==
    /\ bfPc = "scanned"
    /\ items' = scan.images
    /\ ledger' = NewLedger(Len(scan.images))
    /\ IF cfg.dry_run
       THEN /\ bfPc' = "answered"
            /\ bfResponse' = [NoBfResponse EXCEPT !.body = DryRunBody(scan.images)]
       ELSE /\ bfPc' = "process"
            /\ UNCHANGED bfResponse
    /\ UNCHANGED <<store, evVars, cfg, scan, batch, stats>>

\* return {'statusCode': 200, 'body': stats}: what backfill_thumbnails returned,
\* the dry run's answer or the counters
HandlerReturn ==
    /\ bfPc \in {"processed", "answered"}
    /\ ~cfg.cli
    /\ bfPc' = "returned"
    /\ bfResponse' = [statusCode |-> 200, exit |-> NoExit,
                      body |-> IF bfPc = "answered" THEN bfResponse.body ELSE stats]
    /\ UNCHANGED <<store, evVars, cfg, scan, items, batch, stats, ledger>>

\* except Exception as e: return {'statusCode': 500, 'body': {'error': str(e)}}
HandlerFail ==
    /\ bfPc = "raised"
    /\ ~cfg.cli
    /\ bfPc' = "returned"
    /\ bfResponse' = [statusCode |-> 500, exit |-> NoExit,
                      body |-> [error |-> "Exception"]]
    /\ UNCHANGED <<store, evVars, cfg, scan, items, batch, stats, ledger>>

\* main: bucket = args.bucket or os.environ.get('BUCKET_NAME'); if not bucket:
\* sys.exit(1)
MainStart ==
    /\ bfPc = "start"
    /\ cfg.cli
    /\ IF ~cfg.bucket
       THEN /\ bfPc' = "returned"
            /\ bfResponse' = [NoBfResponse EXCEPT !.exit = 1]
       ELSE /\ bfPc' = "scan_list"
            /\ UNCHANGED bfResponse
    /\ UNCHANGED <<store, evVars, cfg, scan, items, batch, stats, ledger>>

\* main prints the counters and ends: exit status 0
MainReturn ==
    /\ bfPc \in {"processed", "answered"}
    /\ cfg.cli
    /\ bfPc' = "returned"
    /\ bfResponse' = [statusCode |-> 0, exit |-> 0,
                      body |-> IF bfPc = "answered" THEN bfResponse.body ELSE stats]
    /\ UNCHANGED <<store, evVars, cfg, scan, items, batch, stats, ledger>>

\* except Exception as e: sys.exit(1)
MainFail ==
    /\ bfPc = "raised"
    /\ cfg.cli
    /\ bfPc' = "returned"
    /\ bfResponse' = [NoBfResponse EXCEPT !.exit = 1]
    /\ UNCHANGED <<store, evVars, cfg, scan, items, batch, stats, ledger>>

NextBackfill ==
    \/ HandlerStart
    \/ MainStart
    \/ NextScan
    \/ AfterScan
    \/ NextBatch
    \/ HandlerReturn
    \/ HandlerFail
    \/ MainReturn
    \/ MainFail

SpecBackfill == InitBackfill /\ [][NextBackfill]_vars

(***************************************************************************)
(* backfill_thumbnails from the moment the scan has answered, on lists of  *)
(* candidates longer than a dry run's sample.                              *)
(***************************************************************************)
\* The k-th candidate of a long scan, in the order the listing gives them.
Candidate(k) ==
    <<"users", "/", "1", "/", "plant", "/", "7", "/", "img", ToString(9 + k),
      ".", "jpg">>

\* The scan's answer: n candidates, none of which has its thumb-64 derivative.
ScannedCandidates(n) == [k \in 1..n |-> Candidate(k)]

\* The state find_images_needing_thumbnails leaves after listing and probing n
\* candidates page by page, no cap given.  Runs that are not dry are started on
\* one candidate at most.
ScanOf(n) ==
    [NoScan EXCEPT !.images = ScannedCandidates(n),
                   !.lists = IF n = 0 THEN 1 ELSE (n + PageSize - 1) \div PageSize,
                   !.tokens = [p \in 1..(IF n = 0 THEN 1
                                         ELSE (n + PageSize - 1) \div PageSize) |->
                                  (p - 1) * PageSize],
                   !.examined = ScannedCandidates(n),
                   !.probed = ScannedCandidates(n),
                   !.probes = n]

InitDryRun ==
    /\ \E n \in 0..MaxCandidates :
        /\ scan = ScanOf(n)
        /\ store = SeqToSet(ScannedCandidates(n))
        /\ cfg \in {c \in BackfillCfgs :
                       /\ c.bucket
                       /\ c.max_images = NoCap
                       /\ c.dry_run \/ n <= 1}
    /\ EventIdle
    /\ bfPc = "scanned"
    /\ BatchIdle

NextDryRun ==
    \/ AfterScan
    \/ NextBatch
    \/ HandlerReturn
    \/ HandlerFail
    \/ MainReturn
    \/ MainFail

SpecDryRun == InitDryRun /\ [][NextDryRun]_vars

(***************************************************************************)
(* The Event Processor's claims, checked under Spec.                       *)
(***************************************************************************)
\* The record the loop took last, and its key as the claims read it: decoded.
LastRecord == event.Records[evIdx]

LastKey == unquote_plus(LastRecord.key)

Took == evIdx > 0 /\ LastRecord.wellformed

HoldsMarker(key) == Contains(key, <<"/", "thumb-">>)

\* The claims' "unsupported extension (case-insensitive)" and "malformed key".
ExtensionOf(key) == lower(splitext(key)[2])

ClaimUnsupported(key) ==
    ExtensionOf(key) \notin
        {<<".", "jpg">>, <<".", "jpeg">>, <<".", "png">>, <<".", "webp">>}

ClaimMalformed(key) == Len(split(key)) < 5 \/ split(key)[1] # <<"users">>

RuleOrder ==
    <<"decode", "derivative", "extension", "structure", "fetch", "size",
      "generate">>

C4_RuleOrder ==
    Took =>
        /\ \E n \in 1..Len(RuleOrder) : lastOut.trace = SubSeq(RuleOrder, 1, n)
        /\ (~HoldsMarker(LastKey) /\ ClaimUnsupported(LastKey)) =>
               /\ lastOut.result = SkippedResult("Unsupported format")
               /\ lastOut.trace = SubSeq(RuleOrder, 1, 3)
        /\ (~HoldsMarker(LastKey) /\ ~ClaimUnsupported(LastKey)
                /\ ClaimMalformed(LastKey)) =>
               /\ lastOut.result = SkippedResult("Invalid key structure")
               /\ lastOut.trace = SubSeq(RuleOrder, 1, 4)
        /\ (~HoldsMarker(LastKey) /\ ~ClaimUnsupported(LastKey)
                /\ ~ClaimMalformed(LastKey)) =>
               /\ Len(lastOut.trace) >= 5
               /\ lastOut.gets = <<LastKey>>
        /\ Len(lastOut.trace) >= 6 =>
               /\ lastOut.gets = <<LastKey>>
               /\ lastOut.size > 0
               /\ lastOut.exc # "ClientError"
        /\ Len(lastOut.trace) = 7 => lastOut.size <= 20 * 1024 * 1024

\* C4's case: a key both unsupported and malformed, reported as unsupported.
C4_Witness ==
    /\ Took
    /\ ~HoldsMarker(LastKey)
    /\ ClaimUnsupported(LastKey)
    /\ ClaimMalformed(LastKey)
    /\ lastOut.result.reason = "Unsupported format"

ResultFits(record, result) ==
    IF ~record.wellformed THEN result = FailedResult("KeyError")
    ELSE LET key == unquote_plus(record.key)
         IN  IF HoldsMarker(key)
             THEN result = SkippedResult("Already a thumbnail")
             ELSE IF ClaimUnsupported(key)
             THEN result = SkippedResult("Unsupported format")
             ELSE IF ClaimMalformed(key)
             THEN result = SkippedResult("Invalid key structure")
             ELSE \/ result = SkippedResult("Image too large")
                  \/ result \in {FailedResult("ClientError"),
                                 FailedResult("ValueError")}
                  \/ /\ result.success /\ ~result.skipped
                     /\ result.original_key = key

\* C6: the handler holds one result per record taken, in input order; a record
\* whose processing raised has a failed result; the handler answers only after
\* the last record, with total = the number of records.
C6_PerRecordIsolation ==
    event.iterable =>
        /\ Len(results) = evIdx
        /\ \A i \in 1..Len(results) : ResultFits(event.Records[i], results[i])
        /\ (evIdx > 0 /\ lastOut.exc # "") =>
               results[evIdx] = FailedResult(lastOut.exc)
        /\ evPc = "done" =>
               /\ evIdx = Len(event.Records)
               /\ response.statusCode = 200
               /\ response.total = Len(event.Records)

\* C6's case: a batch whose first record lacks its fields and whose second
\* record was processed all the same.
C6_Witness ==
    /\ evPc = "done"
    /\ Len(event.Records) = 2
    /\ ~event.Records[1].wellformed
    /\ results[1] = FailedResult("KeyError")
    /\ results[2].success
    /\ response.total = 2

(***************************************************************************)
(* The cascade's claim, checked under SpecCascade.                         *)
(***************************************************************************)
\* C2: every key put holds the marker '/thumb-', so no put targets an original;
\* a notification whose key holds the marker causes no put; with every object
\* created under 'users/' notified, the uploads made so far have led to at most
\* four writes each and to at most five notifications each (the upload's and
\* its derivatives'), so the cascade dies out.
C2_NoRecursiveGeneration ==
    /\ \A i \in 1..Len(lastOut.puts) : HoldsMarker(lastOut.puts[i])
    /\ \A i \in 1..Len(lastOut.thumbnails) : HoldsMarker(lastOut.thumbnails[i])
    /\ (Took /\ HoldsMarker(LastKey)) =>
           (lastOut.puts = <<>> /\ lastOut.thumbnails = <<>>)
    /\ writes <= 4 * uploads
    /\ notified <= 5 * uploads
    /\ Len(queue) <= notified

\* C2's case: one upload, its four derivatives written and notified, the last
\* derivative's notification handled without a write, nothing left queued.
C2_Witness ==
    /\ uploads = 1
    /\ writes = 4
    /\ notified = 5
    /\ queue = <<>>
    /\ evPc = "done"
    /\ HoldsMarker(LastKey)
    /\ LastKey \in store
    /\ lastOut.puts = <<>>


(***************************************************************************)
(* The Reconciliation Scanner's claims, checked under SpecScan.            *)
(***************************************************************************)
ScanComplete == bfPc = "scanned" /\ ~scan.capped

\* The objects of the bucket under the root prefix.
UnderRoot == {key \in store : StartsWith(key, <<"users", "/">>)}

Returned == SeqToSet(scan.images)

\* The original's key with its file name replaced by thumb-64/{name}.webp
Thumb64Of(key) ==
    LET cut == LastIndexOf(key, "/")
        name == SubSeq(key, cut + 1, Len(key))
    IN  SubSeq(key, 1, cut) \o <<"thumb-", "64", "/">> \o splitext(name)[1]
            \o <<".", "webp">>

Processed == bfPc = "processed"

ItemIndexes == 1..Len(items)

\* The number of items a column of the ledger holds the value for.
CountOf(column, value) == Cardinality({j \in ItemIndexes : column[j] = value})

LocalRendering == batch.generator = "local"

\* C3: a run that returned attempted every item exactly once and its counters
\* satisfy total = number of items = successful + skipped + failed; every item
\* whose processing ended in an exception is in failed; and a list whose items
\* were all generated but one, which ended in an error, gives successful = total
\* - 1, skipped = 0, failed = 1 (the 25 items, batch of 10, one corrupt item case
\* at any size).
C3_ExactAccounting ==
    Processed =>
        /\ \A j \in ItemIndexes : ledger.attempts[j] = 1
        /\ stats.total = Len(items)
        /\ stats.total = stats.successful + stats.skipped + stats.failed
        /\ stats.failed = CountOf(ledger.ended, "error")
        /\ (CountOf(ledger.ended, "error") = 1
            /\ CountOf(ledger.ended, "generated") = Len(items) - 1)
           => stats = [total |-> Len(items), successful |-> Len(items) - 1,
                       skipped |-> 0, failed |-> 1]

\* C3, the part that holds with either generator: every item is attempted exactly
\* once, every future is counted exactly once whatever the order the workers
\* finish in, and total = number of items = successful + skipped + failed.
C3_FoldsAreExact ==
    /\ \A j \in ItemIndexes : ledger.attempts[j] <= 1
    /\ Processed =>
        /\ \A j \in ItemIndexes : ledger.attempts[j] = 1
        /\ stats.total = Len(items)
        /\ stats.total = stats.successful + stats.skipped + stats.failed
        /\ stats.successful = CountOf(ledger.counted, "successful")
        /\ stats.skipped = CountOf(ledger.counted, "skipped")
        /\ stats.failed = CountOf(ledger.counted, "failed")
        /\ LocalRendering => C3_ExactAccounting

\* C7: in a run that returned, with either generator, every item whose processing
\* ended in an error (a failed fetch, content that does not decode, a failure the
\* remote worker reported) was counted in failed, not in successful or skipped.
C7_ErrorsCountedFailed ==
    Processed =>
        /\ \A j \in ItemIndexes :
              ledger.ended[j] = "error" => ledger.counted[j] = "failed"
        /\ stats.failed >= CountOf(ledger.ended, "error")

\* C7, the part that holds: it is so when the scheduler renders locally.
C7_OnLocalRendering == LocalRendering => C7_ErrorsCountedFailed

\* C8: in a run that returned, with either generator, the skipped counter is the
\* number of items the processing path classified as skipped, and those are the
\* items counted there.
C8_SkippedCountsSkips ==
    Processed =>
        /\ stats.skipped = CountOf(ledger.ended, "skipped")
        /\ \A j \in ItemIndexes :
              ledger.counted[j] = "skipped" <=> ledger.ended[j] = "skipped"

\* C8, the part that holds: it is so when the scheduler renders locally.
C8_OnLocalRendering == LocalRendering => C8_SkippedCountsSkips


(***************************************************************************)
(* The backfill run's claims, checked under SpecBackfill.                  *)
(***************************************************************************)
\* The run is configured: the bucket is named, and Pillow (with BUCKET_NAME in
\* the environment of its import) or else the function name is there.
Configured ==
    /\ cfg.bucket
    /\ (cfg.pillow /\ cfg.bucket_env) \/ (~cfg.pillow /\ cfg.function_name)

\* The entry point ended well: status 200 from lambda_handler, exit status 0
\* from main.
EndedWell ==
    IF cfg.cli THEN bfResponse.exit = 0 ELSE bfResponse.statusCode = 200

\* C10: a configured run always ends with its statistics (status 200), whatever
\* storage call failed on the way (list, probe, get or put), and an item one of
\* whose get or put calls failed was counted in failed.
C10_StorageFailuresNeverAbort ==
    (bfPc = "returned" /\ Configured) =>
        /\ EndedWell
        /\ ~cfg.dry_run =>
              \A j \in ItemIndexes :
                  ledger.storage_failed[j] => ledger.counted[j] = "failed"

\* C10, the part that holds: a configured run whose list calls all succeeded ends
\* with status 200, whatever its probes, gets and puts did.
C10_AbortsOnlyOnListFailure ==
    (bfPc = "returned" /\ Configured /\ ~EndedWell) =>
        /\ IF cfg.cli THEN bfResponse.exit = 1 ELSE bfResponse.statusCode = 500
        /\ scan.lists > 0
        /\ items = <<>>
        /\ stats = NoStats


(***************************************************************************)
(* The Batch Scheduler's concurrency and ordering claims, under SpecBatch. *)
(***************************************************************************)
\* The items whose process_single_image call is running.
InFlight ==
    {j \in DOMAIN batch.futures : batch.futures[j].state = "running"}

\* The batch an item belongs to, counted from 0.
BatchNumberOf(j) == (j - 1) \div cfg.batch_size

\* C11: at every moment the number of items in process is at most batchSize, and
\* the items in process all belong to one batch.
C11_BoundedConcurrency ==
    /\ Cardinality(InFlight) <= cfg.batch_size
    /\ \A j, k \in InFlight : BatchNumberOf(j) = BatchNumberOf(k)

\* As many items as batchSize allows are in process at once, and more than one.
C11_Witness ==
    /\ Cardinality(InFlight) = cfg.batch_size
    /\ Cardinality(InFlight) > 1

\* The item was submitted to a worker at some moment of the run.
HasStarted(j) ==
    \/ ledger.attempts[j] > 0
    \/ j \in InFlight

\* The number of batches of n items: ceil(n / batchSize)
BatchesOf(n) == (n + cfg.batch_size - 1) \div cfg.batch_size

\* C12: an item has started only if every item of every earlier batch has
\* finished and was counted; while batch k runs exactly k delays have occurred
\* (one between each two batches that follow one another); and a run over n > 0
\* items that returned made ceil(n / batchSize) - 1 delays, none after the last
\* batch.
C12_BarrierAndThrottle ==
    /\ \A j, k \in ItemIndexes :
          (HasStarted(k) /\ BatchNumberOf(j) < BatchNumberOf(k))
              => ledger.counted[j] # "none"
    /\ bfPc = "batch_run" => batch.sleeps = batch.i \div cfg.batch_size
    /\ (Processed /\ Len(items) > 0) => batch.sleeps = BatchesOf(Len(items)) - 1

\* A run of more than one batch returned, having slept between its batches.
C12_Witness ==
    /\ Processed
    /\ BatchesOf(Len(items)) > 1
    /\ batch.sleeps = BatchesOf(Len(items)) - 1


(***************************************************************************)
(* The Derivative Set Generator's claims, checked under SpecGenerate.      *)
(***************************************************************************)
VariantOrder ==
    << <<"thumb-", "64">>, <<"thumb-", "200">>, <<"thumb-", "300">>,
       <<"thumb-", "400">> >>

\* P/V/S.webp for the key P/S.ext: P the directory prefix, S the file name
\* without its last extension.
DerivativeOf(key, variant) ==
    LET cut == LastIndexOf(key, "/")
        name == SubSeq(key, cut + 1, Len(key))
        stem == SubSeq(name, 1, LastIndexOf(name, ".") - 1)
    IN  SubSeq(key, 1, cut - 1) \o <<"/">> \o variant \o <<"/">> \o stem
            \o <<".", "webp">>

\* The derivative keys of the variants of VariantOrder[i..] whose outcome is ok.
RECURSIVE KeysOfOk(_, _, _)
KeysOfOk(i, key, desc) ==
    IF i > Len(VariantOrder) THEN <<>>
    ELSE (IF desc[VariantOrder[i]] = "ok"
          THEN <<DerivativeOf(key, VariantOrder[i])>> ELSE <<>>)
         \o KeysOfOk(i + 1, key, desc)

Called == calls.count > 0 /\ calls.decodable

CalledTwiceClean ==
    /\ calls.count >= 2
    /\ calls.decodable
    /\ calls.previous.clean
    /\ calls.last.desc = AllOk

\* C14: of two calls on one original with no descriptor failing, the second
\* returns the set of keys the first returned, and the bucket holds after the
\* second call the keys it held after the first.
C14_Idempotent ==
    CalledTwiceClean =>
        /\ SeqToSet(calls.last.thumbnail_keys)
              = SeqToSet(calls.previous.thumbnail_keys)
        /\ store = calls.before

\* Two calls without a failure were made and the four derivatives are there.
C14_Witness ==
    /\ CalledTwiceClean
    /\ Len(calls.last.thumbnail_keys) = Len(VariantOrder)
    /\ Cardinality(store) = Len(VariantOrder) + 1

ExampleKey ==
    <<"users", "/", "42", "/", "plant", "/", "7", "/", "abc-123", ".", "jpg">>

ExampleThumb64 ==
    <<"users", "/", "42", "/", "plant", "/", "7", "/", "thumb-", "64", "/",
      "abc-123", ".", "webp">>

\* C15: every key create_thumbnail puts for an original P/S.ext and a variant V
\* is P/V/S.webp, users/42/plant/7/abc-123.jpg with thumb-64 giving
\* users/42/plant/7/thumb-64/abc-123.webp, and the key has_thumbnails probes for
\* the original is the key create_thumbnail puts for thumb-64.
C15_DerivativeKey ==
    Called =>
        /\ calls.last.puts
              = KeysOfOk(1, calls.original_key,
                         [v \in Subdirs |->
                             IF calls.last.desc[v] = "render_error"
                             THEN "render_error" ELSE "ok"])
        /\ probe_key(calls.original_key)
              = DerivativeOf(calls.original_key, <<"thumb-", "64">>)
        /\ calls.last.desc[<<"thumb-", "64">>] = "ok"
              => probe_key(calls.original_key) = calls.last.thumbnail_keys[1]
        /\ calls.original_key = ExampleKey
              => probe_key(calls.original_key) = ExampleThumb64

\* The example's thumb-64 derivative was written under the key of the example.
C15_Witness ==
    /\ Called
    /\ calls.original_key = ExampleKey
    /\ calls.last.thumbnail_keys # <<>>
    /\ calls.last.thumbnail_keys[1] = ExampleThumb64
    /\ ExampleThumb64 \in store


(***************************************************************************)
(* The dry run's claim, checked under SpecDryRun.                          *)
(***************************************************************************)
\* backfill_thumbnails has gone past the scan in a dry run.
DryRunAnswered == cfg.dry_run /\ bfPc # "scanned"

\* The first min(n, Len(s)) elements of s.
FirstOf(s, n) == SubSeq(s, 1, IF Len(s) < n THEN Len(s) ELSE n)

\* C16: a dry run returns right after the scan: no item is processed (no call of
\* process_single_image, hence no get, put or invocation; no counter moves), the
\* bucket holds what it held, totalImages is the number of candidates found and
\* sampleImages their first min(20, totalImages) keys in the order of the scan.
C16_DryRunIsReadOnly ==
    DryRunAnswered =>
        /\ bfPc \in {"answered", "returned"}
        /\ bfPc = "returned" =>
              IF cfg.cli THEN bfResponse.exit = 0 ELSE bfResponse.statusCode = 200
        /\ bfResponse.body.totalImages = Len(scan.images)
        /\ bfResponse.body.sampleImages = FirstOf(scan.images, 20)
        /\ \A j \in ItemIndexes : ledger.attempts[j] = 0
        /\ batch = NoBatch
        /\ stats = NoStats
        /\ store = SeqToSet(scan.images)
        /\ writes = 0

\* A dry run over more than 20 candidates answered with its first 20.
C16_Witness ==
    /\ DryRunAnswered
    /\ bfPc = "returned"
    /\ ~cfg.cli
    /\ Len(scan.images) > 20
    /\ Len(bfResponse.body.sampleImages) = 20
    /\ bfResponse.body.totalImages = Len(scan.images)


(***************************************************************************)
(* The scanner's cap, checked under SpecScan.                              *)
(***************************************************************************)
CapSupplied == cfg.max_images # NoCap

\* C17: with a cap supplied, 0 and 1 included, the scan never holds more keys
\* than the cap, and a scan that returned as many keys as a cap of 1 or more
\* returned the moment it found the last of them, with no list or probe call
\* after it.
C17_CapRespected ==
    CapSupplied =>
        /\ Len(scan.images) <= cfg.max_images
        /\ (bfPc = "scanned" /\ cfg.max_images > 0
            /\ Len(scan.images) = cfg.max_images) => scan.capped

\* C17, the part that holds: it is so for every cap of 1 or more.
C17_PositiveCaps == cfg.max_images > 0 => C17_CapRespected


(***************************************************************************)
(* The choice of the rendering strategy, checked under SpecBatch.          *)
(***************************************************************************)
\* The notification a delegated item is sent as.
SyntheticNotification(key) ==
    <<[wellformed |-> TRUE, bucket |-> BUCKET_NAME, key |-> key]>>

\* C18: every item a run processes goes the one way chosen before the first of
\* them: rendered locally if Pillow is there; otherwise, a function name being
\* set, sent as a notification of its bucket and key and not rendered locally;
\* a run that has one of the two does not raise; and a run with neither raises
\* before any item is processed, counted or recorded as failed.
C18_StrategyChosenOnce ==
    /\ \A j \in ItemIndexes :
          ledger.attempts[j] > 0 =>
              IF cfg.pillow
              THEN /\ batch.generator = "local"
                   /\ ledger.via[j] = "local"
                   /\ ledger.sent[j] = <<>>
              ELSE /\ cfg.function_name
                   /\ batch.generator = "remote"
                   /\ ledger.via[j] = "remote"
                   /\ ledger.sent[j] = SyntheticNotification(items[j])
    /\ (cfg.pillow \/ cfg.function_name) => bfPc # "raised"
    /\ (~cfg.pillow /\ ~cfg.function_name /\ bfPc # "process") =>
          /\ bfPc = "raised"
          /\ stats = NoStats
          /\ \A j \in ItemIndexes :
                ledger.attempts[j] = 0 /\ ledger.counted[j] = "none"

\* C18, the part that holds: it is so whenever BUCKET_NAME is in the environment
\* of the process, as it is for every run lambda_handler starts.
C18_WithBucketInEnvironment == cfg.bucket_env => C18_StrategyChosenOnce

\* A run without Pillow returned after sending each of its two items to the
\* function.
C18_Witness ==
    /\ Processed
    /\ ~cfg.pillow
    /\ Len(items) > 1
    /\ \A j \in ItemIndexes :
          ledger.via[j] = "remote" /\ ledger.sent[j] = SyntheticNotification(items[j])

\* A run with neither Pillow nor a function name raised on its items.
C18_FailFastReached ==
    /\ bfPc = "raised"
    /\ ~cfg.pillow /\ ~cfg.function_name
    /\ Len(items) > 0

(***************************************************************************)
(* C19: fatal configuration errors and the storage calls made before them. *)
(***************************************************************************)
\* The run lacks its configuration: no bucket name, or neither Pillow nor a
\* function name.
Unconfigured == ~cfg.bucket \/ (~cfg.pillow /\ ~cfg.function_name)

\* No list, probe, get or put has been made, and no item has been handed to a
\* worker.
NoStorageCall ==
    /\ scan.lists = 0
    /\ scan.probes = 0
    /\ \A j \in ItemIndexes : ledger.attempts[j] = 0

\* The entry point ended with an error: a status other than 200 from
\* lambda_handler, a non-zero exit status from main.
EndedInError ==
    /\ bfPc = "returned"
    /\ IF cfg.cli THEN bfResponse.exit > 0 ELSE bfResponse.statusCode >= 400

\* C19: a run without a bucket name, or with neither Pillow nor a function
\* name, makes no storage call at any time and ends in error (non-zero exit
\* from main, error status from lambda_handler), dry run or not.
C19_FatalBeforeStorage ==
    Unconfigured =>
        /\ NoStorageCall
        /\ bfPc = "returned" => EndedInError

\* C19, the part that holds: a run without a bucket name ends in error with no
\* storage call made, and a run with neither Pillow nor a function name that is
\* not a dry run ends in error with no get, put or invocation made.
C19_MissingBucketAndFailFast ==
    /\ ~cfg.bucket => (NoStorageCall /\ (bfPc = "returned" => EndedInError))
    /\ (cfg.bucket /\ Unconfigured /\ ~cfg.dry_run) =>
          /\ \A j \in ItemIndexes : ledger.attempts[j] = 0
          /\ bfPc = "returned" => EndedInError

\* C19: the divergence is reached: a dry run with neither Pillow nor a function
\* name has listed and probed the bucket and ended well.
C19_DryRunEndsWell ==
    /\ cfg.bucket /\ ~cfg.pillow /\ ~cfg.function_name /\ cfg.dry_run
    /\ scan.lists > 0
    /\ scan.probes > 0
    /\ bfPc = "returned"
    /\ EndedWell

\* C19: a run without a bucket name is reached, through either entry point.
C19_MissingBucketReached ==
    /\ ~cfg.bucket
    /\ EndedInError

(***************************************************************************)
(* C20: the key structure of the records that reach the fetch.             *)
(***************************************************************************)
\* The key has its root segment and non-empty ownerId, entityType and entityId
\* segments before its file name.
WellStructured(key) ==
    /\ Len(split(key)) >= 5
    /\ split(key)[1] = <<"users">>
    /\ \A n \in 2..4 : split(key)[n] # <<>>

\* C20: a record reaches the fetch (and all that follows it) only if its key
\* has the root segment 'users' and non-empty ownerId, entityType and entityId
\* segments; a key of a supported format that is no derivative and lacks one of
\* these is skipped as an invalid key structure and no derivative is written.
C20_KeyStructure ==
    Took =>
        /\ Len(lastOut.trace) >= 5 => WellStructured(LastKey)
        /\ (~HoldsMarker(LastKey) /\ ~ClaimUnsupported(LastKey)
                /\ ~WellStructured(LastKey)) =>
               /\ lastOut.result = SkippedResult("Invalid key structure")
               /\ lastOut.gets = <<>>
               /\ lastOut.thumbnails = <<>>

\* C20, the part that holds: a record reaches the fetch only if its key has at
\* least five segments of which the first is 'users'.
C20_RootAndDepth ==
    Took =>
        (Len(lastOut.trace) >= 5 =>
            (Len(split(LastKey)) >= 5 /\ split(LastKey)[1] = <<"users">>))

\* C20: the divergence is reached: users//plant/7/a.jpg, with its empty ownerId,
\* is fetched and its four derivatives are written.
C20_EmptySegmentGenerated ==
    /\ Took
    /\ LastKey = <<"users", "/", "/", "plant", "/", "7", "/", "a", ".", "jpg">>
    /\ lastOut.gets = <<LastKey>>
    /\ Len(lastOut.thumbnails) = 4

(***************************************************************************)
(* The geometry's claims, checked under SpecRender.                        *)
(***************************************************************************)
Resized == render.pc \in {"resized", "cropped"}

\* C21: cover-fit: the size the image is scaled to before the crop is at least
\* the target in both dimensions and equals it in at least one, for every
\* source size and each of the four descriptors.
C21_CoverFit ==
    Resized =>
        /\ render.new_size[1] >= render.target[1]
        /\ render.new_size[2] >= render.target[2]
        /\ \/ render.new_size[1] = render.target[1]
           \/ render.new_size[2] = render.target[2]

\* C21, the part that holds: no dimension falls short of the target by more
\* than one pixel, and the dimension the scale was taken from is the target or
\* one less.
C21_WithinOnePixel ==
    Resized =>
        /\ render.new_size[1] >= render.target[1] - 1
        /\ render.new_size[2] >= render.target[2] - 1
        /\ \/ render.new_size[1] \in {render.target[1] - 1, render.target[1]}
           \/ render.new_size[2] \in {render.target[2] - 1, render.target[2]}

\* C21: the divergence is reached: a 49x49 image is scaled to 63x63 for the
\* 64x64 descriptor.
C21_UndershootReached ==
    /\ Resized
    /\ render.size = <<49, 49>>
    /\ render.target = <<64, 64>>
    /\ render.new_size = <<63, 63>>

Cropped == render.pc = "cropped"

\* The margins the box leaves on the right and at the bottom of the scaled image.
RightMargin == render.new_size[1] - render.box[3]

BottomMargin == render.new_size[2] - render.box[4]

\* C22: the crop box is exactly the target wide and high, lies inside the
\* scaled image and is centred to within one pixel, for every source size and
\* each descriptor; a 4000x3000 source is scaled to exactly 200x150 for the
\* 200x150 descriptor and cropped at left = top = 0.
C22_ExactOutputSize ==
    Cropped =>
        /\ render.box[3] - render.box[1] = render.target[1]
        /\ render.box[4] - render.box[2] = render.target[2]
        /\ render.cropped_size = render.target
        /\ 0 <= render.box[1]
        /\ 0 <= render.box[2]
        /\ render.box[3] <= render.new_size[1]
        /\ render.box[4] <= render.new_size[2]
        /\ RightMargin - render.box[1] \in {-1, 0, 1}
        /\ BottomMargin - render.box[2] \in {-1, 0, 1}
        /\ (render.size = <<4000, 3000>> /\ render.target = <<200, 150>>) =>
               /\ render.new_size = <<200, 150>>
               /\ render.box = <<0, 0, 200, 150>>

\* C22, the part that holds: the box has the target's width and height and is
\* centred to within one pixel, the zero-crop case is exact, and the box lies
\* inside the scaled image whenever the scaled image covers the target.
C22_ExactWhereCovered ==
    Cropped =>
        /\ render.cropped_size = render.target
        /\ RightMargin - render.box[1] \in {0, 1}
        /\ BottomMargin - render.box[2] \in {0, 1}
        /\ (render.size = <<4000, 3000>> /\ render.target = <<200, 150>>) =>
               /\ render.new_size = <<200, 150>>
               /\ render.box = <<0, 0, 200, 150>>
        /\ (render.new_size[1] >= render.target[1]
                /\ render.new_size[2] >= render.target[2]) =>
               /\ 0 <= render.box[1]
               /\ 0 <= render.box[2]
               /\ render.box[3] <= render.new_size[1]
               /\ render.box[4] <= render.new_size[2]

\* C22: the divergence is reached: the 63x63 image scaled from 49x49 is cropped
\* to the box (-1, -1, 63, 63).
C22_BoxOutsideReached ==
    /\ Cropped
    /\ render.size = <<49, 49>>
    /\ render.target = <<64, 64>>
    /\ render.box = <<-1, -1, 63, 63>>

\* C22: the zero-crop case is reached.
C22_ZeroCropReached ==
    /\ Cropped
    /\ render.size = <<4000, 3000>>
    /\ render.target = <<200, 150>>
    /\ render.box[1] = 0

\* round(a / b): the nearest integer, a half going to the even one.
RoundRatio(a, b) ==
    LET q == a \div b
        twice == 2 * (a % b)
    IN  IF twice < b THEN q
        ELSE IF twice > b THEN q + 1
        ELSE IF q % 2 = 0 THEN q ELSE q + 1

\* The larger of target_width / img_width and target_height / img_height, as
\* the pair <<numerator, denominator>>.
ClaimScale ==
    IF render.target[1] * render.size[2] >= render.target[2] * render.size[1]
    THEN <<render.target[1], render.size[1]>>
    ELSE <<render.target[2], render.size[2]>>

\* C24: the scaled dimensions are rounded to nearest: newW = round(w * scale)
\* and newH = round(h * scale) with scale = max(tw / w, th / h), for every
\* source size and target.
C24_RoundsToNearest ==
    Resized =>
        /\ render.new_size[1] =
              RoundRatio(render.size[1] * ClaimScale[1], ClaimScale[2])
        /\ render.new_size[2] =
              RoundRatio(render.size[2] * ClaimScale[1], ClaimScale[2])

\* C24, what the code does instead: each scaled dimension is the product cut
\* down to an integer, or one less than it when the product is an integer.
C24_Truncates ==
    Resized =>
        \A i \in 1..2 :
            LET a == render.size[i] * ClaimScale[1]
            IN  \/ render.new_size[i] = a \div ClaimScale[2]
                \/ /\ a % ClaimScale[2] = 0
                   /\ render.new_size[i] = (a \div ClaimScale[2]) - 1

\* C24: the divergence is reached: a 3x5 image is scaled by 64 / 3 to 64x106,
\* where 5 * 64 / 3 = 106.67 rounds to 107.
C24_TruncationReached ==
    /\ Resized
    /\ render.size = <<3, 5>>
    /\ render.target = <<64, 64>>
    /\ render.new_size = <<64, 106>>

(***************************************************************************)
(* C23: the oversize rule, checked under Spec.                             *)
(***************************************************************************)
\* The threshold in bytes: 20 MB.
ThresholdBytes == 20 * 1024 * 1024

\* The record's content was fetched.
Fetched == Took /\ lastOut.size > 0

\* C23: fetched content of more than 20 * 1024 * 1024 bytes is skipped as too
\* large and no derivative is written; content of at most that size, exactly
\* 20 MB included, goes on to generate_thumbnails.
C23_OversizeRule ==
    Fetched =>
        /\ lastOut.size > ThresholdBytes =>
               /\ lastOut.result = SkippedResult("Image too large")
               /\ lastOut.puts = <<>>
               /\ lastOut.thumbnails = <<>>
               /\ lastOut.trace = SubSeq(RuleOrder, 1, 6)
        /\ lastOut.size <= ThresholdBytes =>
               /\ lastOut.result.reason # "Image too large"
               /\ lastOut.trace = RuleOrder

\* C23's case: content of exactly 20 MB, for which the four derivatives were
\* written.
C23_Witness ==
    /\ Fetched
    /\ lastOut.size = ThresholdBytes
    /\ Len(lastOut.thumbnails) = 4

\* C23: content one byte above the threshold is reached, and skipped.
C23_OversizeReached ==
    /\ Fetched
    /\ lastOut.size = ThresholdBytes + 1
    /\ lastOut.result.skipped

(***************************************************************************)
(* C25: the scanner's enumeration, checked under SpecScanFair.             *)
(***************************************************************************)
\* The keys of the store under the prefix, in listing order.
ListingOf(st) ==
    LET ps == FirstN(Listed(st, 0), Len(ListingOrder))
    IN  [i \in 1..Len(ps) |-> ListingOrder[ps[i]]]

\* The pages of a listing of n keys.
PagesOf(n) == IF n = 0 THEN 1 ELSE (n + PageSize - 1) \div PageSize

\* The scan has ended, by returning or by raising.
ScanEnded == bfPc \in {"scanned", "raised"}

\* The uncapped scan has returned.
UncappedScanReturned == bfPc = "scanned" /\ cfg.max_images = NoCap

\* C25 (safety): at no time is a derivative key or a key of an unsupported
\* extension probed, is a page requested twice or out of token order, or is an
\* object examined twice; and when the uncapped scan returns, it has requested
\* every page once, the last of them not truncated, has examined every listed
\* object once in listing order, and returns no more keys than were listed.
C25_EnumerationExact ==
    /\ \A i \in 1..Len(scan.probed) :
          /\ ~HoldsMarker(scan.probed[i])
          /\ ~ClaimUnsupported(scan.probed[i])
    /\ scan.probes = Len(scan.probed)
    /\ \A i, j \in 1..Len(scan.tokens) : i < j => scan.tokens[i] < scan.tokens[j]
    /\ \A i, j \in 1..Len(scan.examined) :
          i # j => scan.examined[i] # scan.examined[j]
    /\ UncappedScanReturned =>
          /\ scan.examined = ListingOf(store)
          /\ Len(scan.tokens) = PagesOf(Len(ListingOf(store)))
          /\ scan.lists = Len(scan.tokens)
          /\ ~scan.truncated
          /\ scan.probed =
                SelectSeq(scan.examined,
                          LAMBDA k : ~HoldsMarker(k) /\ ~ClaimUnsupported(k))
          /\ Len(scan.images) <= Len(scan.examined)

\* C25: the scan always ends, and its enumeration is exact.
C25_TerminatesAndComplete == []C25_EnumerationExact /\ <>ScanEnded

\* C25's case: an uncapped scan that returned after two pages, having passed
\* over a derivative and a file of an unsupported extension without a probe.
C25_Witness ==
    /\ UncappedScanReturned
    /\ Len(scan.tokens) = 2
    /\ Len(scan.examined) = 3
    /\ \E i \in 1..3 : HoldsMarker(scan.examined[i])
    /\ \E i \in 1..3 : ClaimUnsupported(scan.examined[i])
    /\ scan.probes = 1

(***************************************************************************)
(* C26: what a run counted successful is there afterwards; under SpecBatch. *)
(***************************************************************************)
\* C26: when a run has returned, every original it counted successful has its
\* thumb-64 derivative in the store, so that the probe of a scan made right
\* afterwards finds it and the scan does not return the original again.
C26_BackfillConverges ==
    Processed =>
        \A j \in ItemIndexes :
            ledger.counted[j] = "successful" =>
                /\ Thumb64Of(items[j]) \in store
                /\ has_thumbnails(store, items[j], FALSE)

\* C26, the part that holds: an original counted successful whose four
\* derivatives were all written has its thumb-64 derivative in the store.
C26_WhenAllWritten ==
    Processed =>
        \A j \in ItemIndexes :
            (ledger.counted[j] = "successful" /\ Len(ledger.written[j]) = 4) =>
                /\ Thumb64Of(items[j]) \in store
                /\ has_thumbnails(store, items[j], FALSE)

\* C26: the divergence is reached with local rendering: an original counted
\* successful of which some derivative was written, but not thumb-64.
C26_CountedWithoutThumb64 ==
    /\ Processed
    /\ LocalRendering
    /\ \E j \in ItemIndexes :
          /\ ledger.counted[j] = "successful"
          /\ ledger.written[j] # <<>>
          /\ Thumb64Of(items[j]) \notin store

\* C26: and with the remote generator: an original counted successful for
\* which the invoked function wrote nothing.
C26_CountedWithoutAnyRemote ==
    /\ Processed
    /\ batch.generator = "remote"
    /\ \E j \in ItemIndexes :
          /\ ledger.counted[j] = "successful"
          /\ ledger.written[j] = <<>>
          /\ Thumb64Of(items[j]) \notin store

(***************************************************************************)
(* C27: the key the backfill reads; under SpecBatch.                       *)
(***************************************************************************)
\* C27: whichever generator is used, the key an item's get asks the store for
\* is the listed key itself, and decoding leaves every listed key as it is, a
\* key holding '+' or '%' included.
C27_FetchesListedKey ==
    \A j \in ItemIndexes :
        /\ unquote_plus(items[j]) = items[j]
        /\ ledger.fetched[j] # <<>> => ledger.fetched[j] = <<items[j]>>

\* C27, the part that holds: it is so for the keys without '+' and '%', and
\* the notification sent to the function carries the listed key as it is.
C27_PlainKeys ==
    \A j \in ItemIndexes :
        /\ (~Contains(items[j], <<"+">>) /\ ~Contains(items[j], <<"%">>)) =>
              /\ unquote_plus(items[j]) = items[j]
              /\ ledger.fetched[j] # <<>> => ledger.fetched[j] = <<items[j]>>
        /\ ledger.sent[j] # <<>> => ledger.sent[j][1].key = items[j]

\* C27: the divergence is reached: for the listed key .../a+b.jpg the get asks
\* for .../a b.jpg.
C27_OtherKeyFetched ==
    \E j \in ItemIndexes :
        /\ items[j] = <<"users", "/", "1", "/", "plant", "/", "7", "/", "a", "+",
                        "b", ".", "jpg">>
        /\ ledger.fetched[j] = << <<"users", "/", "1", "/", "plant", "/", "7",
                                    "/", "a", " ", "b", ".", "jpg">> >>
        /\ ledger.ended[j] = "error"

(***************************************************************************)
(* C28: what the scanner returns and what the processor accepts; under     *)
(* SpecBackfill.                                                           *)
(***************************************************************************)
\* The key passes the processor's key validation: no derivative, a supported
\* extension, a well-formed structure.
PassesValidation(key) ==
    /\ ~HoldsMarker(key)
    /\ ~ClaimUnsupported(key)
    /\ ~ClaimMalformed(key)

\* C28: every key the scan has collected passes the processor's key
\* validation, so no candidate is skipped for a reason its key gives.
C28_ScannerAgreesWithProcessor ==
    \A i \in 1..Len(scan.images) : PassesValidation(scan.images[i])

\* C28, the part that holds: every key the scan has collected is no derivative
\* and has a supported extension.
C28_MarkerAndExtensionAgree ==
    \A i \in 1..Len(scan.images) :
        /\ ~HoldsMarker(scan.images[i])
        /\ ~ClaimUnsupported(scan.images[i])

\* C28: the divergence is reached: users/x.jpg was returned by the scan, handed
\* to local rendering, skipped there and counted skipped, with no derivative
\* written.
C28_CandidateSkipped ==
    /\ Processed
    /\ LocalRendering
    /\ \E j \in ItemIndexes :
          /\ items[j] = <<"users", "/", "x", ".", "jpg">>
          /\ scan.images[j] = items[j]
          /\ ledger.ended[j] = "skipped"
          /\ ledger.counted[j] = "skipped"
          /\ Thumb64Of(items[j]) \notin store

(***************************************************************************)
(* C29: derivative keys of distinct originals; under SpecPair.             *)
(***************************************************************************)
\* The j-th original was probed and found to have its thumbnails.
ProbedAsDone(j) ==
    /\ items[j] \in SeqToSet(scan.examined)
    /\ items[j] \notin SeqToSet(scan.images)

\* C29: two distinct originals the processor accepts never have the same
\* derivative key for a variant: the derivatives written for one are never
\* those written for the other, and an original's probe is answered only by a
\* thumb-64 derivative written for that original.
C29_NoCollision ==
    /\ \A j1, j2 \in ItemIndexes :
          j1 # j2 =>
              /\ \A v \in 1..Len(VariantOrder) :
                    DerivativeOf(items[j1], VariantOrder[v])
                        # DerivativeOf(items[j2], VariantOrder[v])
              /\ SeqToSet(ledger.written[j1]) \cap SeqToSet(ledger.written[j2]) = {}
    /\ \A j \in ItemIndexes :
          ProbedAsDone(j) => Thumb64Of(items[j]) \in SeqToSet(ledger.written[j])

\* C29, the part that holds: it is so for two originals that differ in their
\* directory or in their file name without its extension.
C29_DistinctStems ==
    (rsplit1(items[1])[1] # rsplit1(items[2])[1]
        \/ splitext(rsplit1(items[1])[2])[1] # splitext(rsplit1(items[2])[2])[1])
    => C29_NoCollision

\* C29: the divergence is reached: the four derivatives of a.jpg were written
\* over those of a.png of the same directory.
C29_Overwritten ==
    /\ items[1] = <<"users", "/", "1", "/", "plant", "/", "7", "/", "a", ".", "png">>
    /\ items[2] = <<"users", "/", "1", "/", "plant", "/", "7", "/", "a", ".", "jpg">>
    /\ Len(ledger.written[1]) = 4
    /\ ledger.written[2] = ledger.written[1]

\* C29: and for the probe: a.png, for which nothing was written, is found to
\* have its thumbnails, the thumb-64 derivative in the store being a.jpg's.
C29_ProbeAnsweredByOther ==
    /\ items[1] = <<"users", "/", "1", "/", "plant", "/", "7", "/", "a", ".", "png">>
    /\ ledger.written[1] = <<>>
    /\ ProbedAsDone(1)
    /\ Thumb64Of(items[1]) \in SeqToSet(ledger.written[2])

(***************************************************************************)
(* C30: every batch size; under SpecAnyBatchSize.                          *)
(***************************************************************************)
\* No item was handed to a worker or counted.
NothingProcessed ==
    \A j \in ItemIndexes : ledger.attempts[j] = 0 /\ ledger.counted[j] = "none"

\* C30: for every integer batch size and every non-empty list of candidates, a
\* run that returned has processed and counted every candidate and its
\* counters satisfy total = successful + skipped + failed, and a run that
\* raised has processed none.
C30_AnyBatchSize ==
    Len(items) > 0 =>
        /\ Processed =>
              /\ \A j \in ItemIndexes :
                    ledger.attempts[j] = 1 /\ ledger.counted[j] # "none"
              /\ stats.total = Len(items)
              /\ stats.total = stats.successful + stats.skipped + stats.failed
        /\ bfPc = "raised" => NothingProcessed

\* C30, the part that holds: it is so for every batch size of 0 or more, a run
\* with batch size 0 raising before any item.
C30_FromZeroUp ==
    /\ cfg.batch_size >= 0 => C30_AnyBatchSize
    /\ (cfg.batch_size = 0 /\ bfPc # "process") =>
          (bfPc = "raised" /\ NothingProcessed)

\* C30: the divergence is reached: a run with a negative batch size returned
\* its statistics, total = 2 and the three counters 0, with no item processed.
C30_ReturnedUnprocessed ==
    /\ Processed
    /\ cfg.batch_size < 0
    /\ Len(items) = 2
    /\ stats = [total |-> 2, successful |-> 0, skipped |-> 0, failed |-> 0]
    /\ NothingProcessed

\* C30: a run with batch size 0 is reached, raised.
C30_ZeroRaised ==
    /\ cfg.batch_size = 0
    /\ bfPc = "raised"
    /\ batch.error = "ValueError"

====
